---- MODULE Spec2Model ----
(***************************************************************************)
(* Inventory consistency subsystem of DarbarBootsPro: the quantity ledger  *)
(* (core/inventory_manager.py), and the wholesale (billing/views.py) and   *)
(* retail (retailapp/views.py) invoice views that drive it.                *)
(*                                                                         *)
(* The specifications share the variables:                                 *)
(*   Spec         two concurrent InventoryManager transactions with row    *)
(*                locks (select_for_update) held until commit or rollback; *)
(*   SpecCall     one InventoryManager call at a time, run to completion,  *)
(*                on a wide range of inputs;                               *)
(*   SpecViews    the invoice create / update / delete views, one request  *)
(*                at a time;                                               *)
(*   SpecReturns  retail returns posted through the view and the admin by  *)
(*                two workers;                                             *)
(*   SpecPayments wholesale payments, returns and line item updates;       *)
(*   SpecAdjust   a manual stock adjustment next to an invoice deduction;  *)
(*   SpecNumbers  two workers saving new retail invoices;                  *)
(*   SpecDelete   the deletion of an invoice with a soft-deleted item;     *)
(*   SpecRecalc   repeated recalculations of the invoice aggregates;       *)
(*   SpecInsert   the retry loop around the insert of a wholesale invoice; *)
(*   SpecProportional  an amount-only wholesale return and a deletion;     *)
(*   SpecAmount   RetailReturn.save on a return linked to a line item;     *)
(*   SpecChallan  challan creations and soft deletions in one month;       *)
(*   SpecDeleteRace  two delete requests for the same invoice.             *)
(***************************************************************************)
EXTENDS Integers, Sequences, FiniteSets, TLC

VARIABLES
    quantity,    \* Item.quantity of every Item row (committed value)
    movements,   \* the StockMovement rows, in insertion order
    tx,          \* per worker: the InventoryManager call it is executing
    initial,     \* Item.quantity of every Item row when it was created
    last,        \* the last completed call or request, with the state before it
    invoices,    \* Invoice / RetailInvoice rows
    lines,       \* InvoiceItem / RetailInvoiceItem rows
    returns,     \* Return / RetailReturn rows
    payments,    \* Payment rows
    pending,     \* per worker: the request it is executing outside the ledger
    challans     \* Challan rows

\* the rows and requests the ledger and the invoice views leave alone
others == <<returns, payments, pending, challans>>

vars == <<quantity, movements, tx, initial, last, invoices, lines, others>>

-----------------------------------------------------------------------------
(* Bounds of the model *)

MaxStock == 2      \* largest initial Item.quantity
MaxQty == 2        \* largest quantity of one submitted entry

-----------------------------------------------------------------------------
(* The Item table.  Rows 1..3 are active items, row 4 is an inactive item  *)
(* (is_active = False), row 5 is soft-deleted (is_deleted = True).  Id 0   *)
(* stands for a missing item id (None or '').                              *)

ItemIds == 1..5

ActiveIds == 1..3

is_active(id) == id # 4

is_deleted(id) == id = 5

\* Item.objects.[select_for_update().]get(id=item_id, is_deleted=False) finds a row
RowFound(id) == id \in ItemIds /\ ~is_deleted(id)

Entry(id, q) == [item_id |-> id, quantity |-> q]

-----------------------------------------------------------------------------
(* Sequence helpers *)

RECURSIVE SumSeq(_)
SumSeq(s) == IF s = <<>> THEN 0 ELSE s[1] + SumSeq(Tail(s))

Front(s) == SubSeq(s, 1, Len(s) - 1)

\* the sequences over S whose length is in Lengths
SeqsOf(S, Lengths) == UNION {[1..n -> S] : n \in Lengths}

-----------------------------------------------------------------------------
(* core/inventory_manager.py: the pieces of one InventoryManager call.     *)
(* A call is a record t: the entries still to validate (todo, i), the      *)
(* Item objects it has read under lock (objs, each with the quantity it    *)
(* read), the errors collected, the rows it holds locked, and the writes   *)
(* of its transaction that are not yet committed (wq, moves).              *)

NotWritten == [id \in ItemIds |-> -1]

NoResult == [success |-> FALSE, errors |-> <<>>]

IdleTx ==
    [pc |-> "idle", op |-> "none", invoice_type |-> "retail", invoice_id |-> 0,
     original |-> <<>>, input |-> <<>>, todo |-> <<>>, i |-> 0, objs |-> <<>>,
     errors |-> <<>>, held |-> {}, wq |-> NotWritten, moves |-> <<>>,
     stock0 |-> NotWritten, with |-> {}, result |-> NoResult]

Work(id, q, kind, reason) ==
    [item_id |-> id, quantity |-> q, kind |-> kind, reason |-> reason]

\* one entry of invoice_items / return_items as the loop of the call sees it
RECURSIVE WorkList(_, _)
WorkList(items, kind) ==
    IF items = <<>> THEN <<>>
    ELSE <<Work(items[1].item_id, items[1].quantity, kind, "")>>
         \o WorkList(Tail(items), kind)

\* {item['item_id']: item['quantity'] for item in items}: keys in the order of
\* their first occurrence, each with the quantity of its last occurrence
RECURSIVE DictOf(_)
DictOf(items) ==
    IF items = <<>> THEN <<>>
    ELSE LET d == DictOf(Front(items))
             e == items[Len(items)]
         IN  IF \E k \in 1..Len(d) : d[k].item_id = e.item_id
             THEN [k \in 1..Len(d) |->
                      IF d[k].item_id = e.item_id
                      THEN Entry(e.item_id, e.quantity) ELSE d[k]]
             ELSE Append(d, Entry(e.item_id, e.quantity))

InDict(d, id) == \E k \in 1..Len(d) : d[k].item_id = id

DictGet(d, id) == d[CHOOSE k \in 1..Len(d) : d[k].item_id = id].quantity

\* dict.get(id, 0)
DictGet0(d, id) == IF InDict(d, id) THEN DictGet(d, id) ELSE 0

\* the difference taken the wrong way round
QuantityDiff_Swapped(orig_qty, updated_qty) == updated_qty - orig_qty

\* diff = orig_qty - updated_qty
QuantityDiff(orig_qty, updated_qty) == orig_qty - updated_qty

\* items_to_add_stock: removed items and decreased quantities, in the order of
\* original_dict
RECURSIVE ItemsToAddStock(_, _)
ItemsToAddStock(original_dict, updated_dict) ==
    IF original_dict = <<>> THEN <<>>
    ELSE LET e == original_dict[1]
             rest == ItemsToAddStock(Tail(original_dict), updated_dict)
         IN  IF ~InDict(updated_dict, e.item_id)
             THEN <<Work(e.item_id, e.quantity, "upd_add", "removed_from_invoice")>> \o rest
             ELSE IF QuantityDiff(e.quantity, DictGet(updated_dict, e.item_id)) > 0
             THEN <<Work(e.item_id, QuantityDiff(e.quantity, DictGet(updated_dict, e.item_id)),
                         "upd_add", "quantity_decreased")>> \o rest
             ELSE rest

\* the increased quantities, in the order of original_dict
RECURSIVE ItemsIncreased(_, _)
ItemsIncreased(original_dict, updated_dict) ==
    IF original_dict = <<>> THEN <<>>
    ELSE LET e == original_dict[1]
             rest == ItemsIncreased(Tail(original_dict), updated_dict)
         IN  IF InDict(updated_dict, e.item_id)
                /\ QuantityDiff(e.quantity, DictGet(updated_dict, e.item_id)) < 0
             THEN <<Work(e.item_id, -QuantityDiff(e.quantity, DictGet(updated_dict, e.item_id)),
                         "upd_deduct", "quantity_increased")>> \o rest
             ELSE rest

\* the new items, in the order of updated_dict
RECURSIVE ItemsAdded(_, _)
ItemsAdded(original_dict, updated_dict) ==
    IF updated_dict = <<>> THEN <<>>
    ELSE LET e == updated_dict[1]
             rest == ItemsAdded(original_dict, Tail(updated_dict))
         IN  IF ~InDict(original_dict, e.item_id)
             THEN <<Work(e.item_id, e.quantity, "upd_deduct", "added_to_invoice")>> \o rest
             ELSE rest

\* items_to_deduct_stock
ItemsToDeductStock(original_dict, updated_dict) ==
    ItemsIncreased(original_dict, updated_dict) \o ItemsAdded(original_dict, updated_dict)

\* the start of a call: nothing validated, nothing locked, nothing written
NewTx(op, original, input, todo, invoice_type, invoice_id) ==
    [IdleTx EXCEPT !.pc = "run", !.op = op, !.original = original, !.input = input,
                   !.todo = todo, !.invoice_type = invoice_type,
                   !.invoice_id = invoice_id]

DeductTx(invoice_items, invoice_type, invoice_id) ==
    NewTx("deduct", <<>>, invoice_items, WorkList(invoice_items, "deduct"),
          invoice_type, invoice_id)

AddTx(return_items, invoice_type, invoice_id) ==
    NewTx("add", <<>>, return_items, WorkList(return_items, "add"),
          invoice_type, invoice_id)

\* phase 1 of an update validates the deductions first, then the additions
UpdateTx(original_items, updated_items, invoice_type, invoice_id) ==
    NewTx("update", original_items, updated_items,
          ItemsToDeductStock(DictOf(original_items), DictOf(updated_items))
          \o ItemsToAddStock(DictOf(original_items), DictOf(updated_items)),
          invoice_type, invoice_id)

RestoreTx(invoice_items, invoice_type, invoice_id) ==
    NewTx("restore", <<>>, invoice_items, WorkList(invoice_items, "restore"),
          invoice_type, invoice_id)

\* the entry the call validates next
NextWork(t) == t.todo[t.i + 1]

\* `if not item_id` / `if quantity <= 0`: the entry is refused (deduct, add) or
\* skipped (restore) before any row is read
BadEntry(w) ==
    /\ w.kind \in {"deduct", "add", "restore"}
    /\ (w.item_id = 0 \/ w.quantity <= 0)

\* the row the next entry locks with select_for_update().get(), 0 when it locks none
LockWanted(t) ==
    IF ~BadEntry(NextWork(t)) /\ RowFound(NextWork(t).item_id)
    THEN NextWork(t).item_id ELSE 0

\* the quantity a read inside the transaction returns: its own uncommitted write,
\* else the committed value
ReadQuantity(t, dbq, id) == IF t.wq[id] # -1 THEN t.wq[id] ELSE dbq[id]

\* the stock check left out
InsufficientStock_Unchecked(stock, requested) == FALSE

\* item.quantity < quantity
InsufficientStock(stock, requested) == stock < requested

\* the error phase 1 records for an entry, "" when it records none
EntryError(w, stock) ==
    IF w.kind \in {"deduct", "add"} /\ w.item_id = 0 THEN "missing_item_id"
    ELSE IF w.kind \in {"deduct", "add"} /\ w.quantity <= 0 THEN "invalid_quantity"
    ELSE IF ~RowFound(w.item_id) THEN "not_found"
    ELSE IF w.kind \in {"deduct", "upd_deduct"} /\ ~is_active(w.item_id) THEN "inactive"
    ELSE IF w.kind \in {"deduct", "upd_deduct"} /\ InsufficientStock(stock, w.quantity)
         THEN "insufficient"
    ELSE ""

MovementType(kind, reason, invoice_type) ==
    IF kind = "deduct" THEN invoice_type \o "_sale"
    ELSE IF kind = "upd_deduct" /\ reason = "added_to_invoice" THEN invoice_type \o "_sale"
    ELSE IF kind \in {"upd_deduct", "upd_add"} THEN "adjustment"
    ELSE "return"

\* the signed quantity of the StockMovement row of a mutation
SignedQuantity(kind, q) == IF kind \in {"deduct", "upd_deduct"} THEN -q ELSE q

Movement(t, id, kind, reason, q) ==
    [item |-> id, quantity |-> SignedQuantity(kind, q),
     movement_type |-> MovementType(kind, reason, t.invoice_type),
     invoice_id |-> t.invoice_id, invoice_type |-> t.invoice_type]

\* item.quantity -= quantity / item.quantity += quantity on the object that was
\* read with quantity `stock`, item.save(update_fields=['quantity', ...]) and
\* StockMovement.objects.create(...)
SaveItem(t, id, kind, reason, stock, q) ==
    [t EXCEPT !.wq[id] = stock + SignedQuantity(kind, q),
              !.moves = Append(t.moves, Movement(t, id, kind, reason, q))]

\* one iteration of the validation loop (restore_stock_for_invoice_deletion
\* mutates in the same iteration)
StepEntry(t, dbq) ==
    LET w == NextWork(t)
        lock == LockWanted(t)
        gets == IF lock = 0 THEN {} ELSE {lock}
        stock == IF lock = 0 THEN 0 ELSE ReadQuantity(t, dbq, lock)
        u == [t EXCEPT !.i = t.i + 1, !.held = t.held \cup gets]
    IN  IF w.kind = "restore"
        THEN IF BadEntry(w) THEN u
             ELSE IF ~RowFound(w.item_id)
             THEN [u EXCEPT !.errors = Append(t.errors, "not_found")]
             ELSE SaveItem(u, w.item_id, w.kind, w.reason, stock, w.quantity)
        ELSE IF EntryError(w, stock) # ""
        THEN [u EXCEPT !.errors = Append(t.errors, EntryError(w, stock))]
        ELSE [u EXCEPT !.objs = Append(t.objs,
                 [item_id |-> w.item_id, quantity |-> w.quantity, kind |-> w.kind,
                  reason |-> w.reason, stock |-> stock])]

\* the collected errors ignored
RaisesValidationError_Never(errors) == FALSE

\* `if errors: raise ValidationError(errors)`
RaisesValidationError(errors) == errors # <<>>

\* the order in which phase 2 mutates: an update adds stock back first and
\* deducts after; the other calls follow the order of the entries
Phase2Order(t) ==
    IF t.op = "update"
    THEN SelectSeq(t.objs, LAMBDA o : o.kind = "upd_add")
         \o SelectSeq(t.objs, LAMBDA o : o.kind = "upd_deduct")
    ELSE t.objs

RECURSIVE Phase2(_, _)
Phase2(t, objs) ==
    IF objs = <<>> THEN t
    ELSE Phase2(SaveItem(t, objs[1].item_id, objs[1].kind, objs[1].reason,
                         objs[1].stock, objs[1].quantity),
                Tail(objs))

\* the committed quantities once the transaction of t commits
Committed(t, dbq) == [id \in ItemIds |-> ReadQuantity(t, dbq, id)]

Outcome(dbq, dbm, success, errors) ==
    [quantity |-> dbq, movements |-> dbm, success |-> success, errors |-> errors]

\* a deletion that rolled back and failed on the first missing row, as the
\* other calls do
Finish_AllOrNothing(t, dbq, dbm) ==
    IF t.op \in {"deduct", "add"} /\ t.input = <<>>
    THEN Outcome(dbq, dbm, FALSE, <<"no_items">>)
    ELSE IF t.errors # <<>>
    THEN Outcome(dbq, dbm, FALSE, t.errors)
    ELSE LET t2 == Phase2(t, Phase2Order(t))
         IN  Outcome(Committed(t2, dbq), dbm \o t2.moves, TRUE, <<>>)

\* the end of a call whose validation loop is over: rollback and success=False on
\* errors, else phase 2 and commit
Finish(t, dbq, dbm) ==
    IF t.op \in {"deduct", "add"} /\ t.input = <<>>
    THEN Outcome(dbq, dbm, FALSE, <<"no_items">>)
    ELSE IF t.op = "restore"
    THEN Outcome(Committed(t, dbq), dbm \o t.moves, TRUE, t.errors)
    ELSE IF RaisesValidationError(t.errors)
    THEN Outcome(dbq, dbm, FALSE, t.errors)
    ELSE LET t2 == Phase2(t, Phase2Order(t))
         IN  Outcome(Committed(t2, dbq), dbm \o t2.moves, TRUE, <<>>)

\* a call run to completion with no other transaction in between
RECURSIVE RunSteps(_, _)
RunSteps(t, dbq) ==
    IF t.i = Len(t.todo) THEN t ELSE RunSteps(StepEntry(t, dbq), dbq)

RunCall(t, dbq, dbm) == Finish(RunSteps(t, dbq), dbq, dbm)

deduct_stock_for_invoice(dbq, dbm, invoice_items, invoice_type, invoice_id) ==
    RunCall(DeductTx(invoice_items, invoice_type, invoice_id), dbq, dbm)

add_stock_for_return(dbq, dbm, return_items, invoice_type, invoice_id) ==
    RunCall(AddTx(return_items, invoice_type, invoice_id), dbq, dbm)

update_stock_for_invoice_update(dbq, dbm, original_items, updated_items, invoice_type, invoice_id) ==
    RunCall(UpdateTx(original_items, updated_items, invoice_type, invoice_id), dbq, dbm)

restore_stock_for_invoice_deletion(dbq, dbm, invoice_items, invoice_type, invoice_id) ==
    RunCall(RestoreTx(invoice_items, invoice_type, invoice_id), dbq, dbm)

-----------------------------------------------------------------------------
(* Spec: two workers, each running one InventoryManager call as one         *)
(* transaction.  A row locked by select_for_update() stays locked until the *)
(* transaction that locked it commits or rolls back; a worker whose next    *)
(* row is locked by the other one waits.                                    *)

Procs == {1, 2}

\* the items the concurrent calls work on
SharedIds == {1, 2}

\* the quantities they ask for: up to half of the largest stock, plus one
SharedEntries == {Entry(id, q) : id \in SharedIds, q \in 1..(MaxStock \div 2 + 1)}

\* the number of entries of a concurrent batch, and of each list of a concurrent
\* update
BatchSizes == 1..2

DiffSizes == 0..1

\* the initial stock: one level for the active items, 1 for the other rows
InitLedger ==
    /\ challans = <<>>
    /\ quantity \in {[id \in ItemIds |-> IF id \in ActiveIds THEN s ELSE 1] :
                       s \in 0..MaxStock}
    /\ initial = quantity
    /\ movements = <<>>
    /\ tx = [p \in Procs |-> IdleTx]
    /\ last = [op |-> "none"]
    /\ invoices = <<>>
    /\ lines = <<>>
    /\ returns = <<>>
    /\ payments = <<>>
    /\ pending = [p \in Procs |-> [pc |-> "idle"]]

Init == InitLedger

\* select_for_update() that takes no lock
LockFree_NoLock(p, id) == TRUE

\* no other transaction holds the row locked
LockFree(p, id) == \A q \in Procs \ {p} : id \notin tx[q].held

\* a worker starts one call; worker 1 is the worker whose call starts first
CanStart(p) ==
    /\ tx[p].pc = "idle"
    /\ \A q \in Procs : q < p => tx[q].pc # "idle"

Start(p, t) ==
    /\ tx' = [tx EXCEPT ![p] = [t EXCEPT !.stock0 = quantity,
                                         !.with = {q \in Procs : tx[q].pc = "run"}]]
    /\ UNCHANGED <<quantity, movements, initial, last, invoices, lines, others>>

BeginDeduct(p) ==
    /\ CanStart(p)
    /\ \E items \in SeqsOf(SharedEntries, BatchSizes) : Start(p, DeductTx(items, "retail", p))

BeginAdd(p) ==
    /\ CanStart(p)
    /\ \E items \in SeqsOf(SharedEntries, BatchSizes) : Start(p, AddTx(items, "retail", p))

BeginUpdate(p) ==
    /\ CanStart(p)
    /\ \E original \in SeqsOf(SharedEntries, DiffSizes), updated \in SeqsOf(SharedEntries, DiffSizes) :
        /\ original # <<>> \/ updated # <<>>
        /\ Start(p, UpdateTx(original, updated, "retail", p))

BeginRestore(p) ==
    /\ CanStart(p)
    /\ \E items \in SeqsOf(SharedEntries, BatchSizes) : Start(p, RestoreTx(items, "retail", p))

\* the next iteration of the validation loop; it waits for the row lock
Step(p) ==
    /\ tx[p].pc = "run"
    /\ tx[p].i < Len(tx[p].todo)
    /\ LockWanted(tx[p]) # 0 => LockFree(p, LockWanted(tx[p]))
    /\ tx' = [tx EXCEPT ![p] = StepEntry(tx[p], quantity)]
    /\ UNCHANGED <<quantity, movements, initial, last, invoices, lines, others>>

\* what a worker keeps of a finished call
Done(t, success, errors) ==
    [IdleTx EXCEPT !.pc = "done", !.op = t.op, !.original = t.original,
                   !.input = t.input, !.stock0 = t.stock0, !.with = t.with,
                   !.invoice_id = t.invoice_id,
                   !.result = [success |-> success, errors |-> errors]]

\* the end of the call: commit (or rollback), which releases the row locks
Commit(p) ==
    /\ tx[p].pc = "run"
    /\ tx[p].i = Len(tx[p].todo)
    /\ LET out == Finish(tx[p], quantity, movements)
       IN  /\ quantity' = out.quantity
           /\ movements' = out.movements
           /\ tx' = [tx EXCEPT ![p] = Done(tx[p], out.success, out.errors)]
    /\ UNCHANGED <<initial, last, invoices, lines, others>>

Waiting(p) ==
    /\ tx[p].pc = "run"
    /\ tx[p].i < Len(tx[p].todo)
    /\ LockWanted(tx[p]) # 0
    /\ ~LockFree(p, LockWanted(tx[p]))

\* two transactions each waiting for a row the other holds: the database aborts
\* one of them; the call catches the exception and returns success=False
DeadlockAbort(p) ==
    /\ Waiting(p)
    /\ \E q \in Procs \ {p} :
          /\ Waiting(q)
          /\ LockWanted(tx[p]) \in tx[q].held
          /\ LockWanted(tx[q]) \in tx[p].held
    /\ tx' = [tx EXCEPT ![p] = Done(tx[p], FALSE, <<"exception">>)]
    /\ UNCHANGED <<quantity, movements, initial, last, invoices, lines, others>>

Next ==
    \E p \in Procs :
        \/ BeginDeduct(p)
        \/ BeginAdd(p)
        \/ BeginUpdate(p)
        \/ BeginRestore(p)
        \/ Step(p)
        \/ Commit(p)
        \/ DeadlockAbort(p)

Spec == Init /\ [][Next]_vars

-----------------------------------------------------------------------------
(* SpecCall: one InventoryManager call, run to completion, on any input.   *)
(* `last` keeps the call, the state before it and what it returned.        *)

\* the number of entries of a list passed to a call
CallSizes == 0..2

\* entries as a caller may pass them: any id (0 = missing, 5 = soft-deleted row),
\* any quantity (0 = invalid)
AnyEntries == {Entry(id, q) : id \in 0..5, q \in 0..MaxQty}

\* entries of an invoice's line items: a row id and a positive quantity
LineEntries == {Entry(id, q) : id \in ItemIds, q \in 1..MaxQty}

UniqueItems(items) ==
    \A j, k \in 1..Len(items) : items[j].item_id = items[k].item_id => j = k

\* lists with at most one entry per item, as the views build original_items
GroupedLists == {l \in SeqsOf(LineEntries, CallSizes) : UniqueItems(l)}

Called(op, original, input, out) ==
    /\ last' = [op |-> op, original |-> original, input |-> input,
                pre_quantity |-> quantity, pre_movements |-> movements,
                success |-> out.success, errors |-> out.errors]
    /\ quantity' = out.quantity
    /\ movements' = out.movements
    /\ UNCHANGED <<tx, initial, invoices, lines, others>>

CallDeduct ==
    /\ last.op = "none"
    /\ \E items \in SeqsOf(AnyEntries, CallSizes) :
        Called("deduct", <<>>, items,
               deduct_stock_for_invoice(quantity, movements, items, "retail", 1))

CallAdd ==
    /\ last.op = "none"
    /\ \E items \in SeqsOf(AnyEntries, CallSizes) :
        Called("add", <<>>, items,
               add_stock_for_return(quantity, movements, items, "retail", 1))

CallUpdate ==
    /\ last.op = "none"
    /\ \E original \in GroupedLists, updated \in GroupedLists :
        Called("update", original, updated,
               update_stock_for_invoice_update(quantity, movements, original, updated,
                                               "retail", 1))

CallRestore ==
    /\ last.op = "none"
    /\ \E items \in SeqsOf(AnyEntries, CallSizes) :
        Called("restore", <<>>, items,
               restore_stock_for_invoice_deletion(quantity, movements, items, "retail", 1))

NextCall == CallDeduct \/ CallAdd \/ CallUpdate \/ CallRestore

SpecCall == InitLedger /\ [][NextCall]_vars

-----------------------------------------------------------------------------
(* Properties of the quantity ledger *)

\* the sum of the quantity fields of the StockMovement rows of an item
RECURSIVE MovementSum(_, _)
MovementSum(rows, id) ==
    IF rows = <<>> THEN 0
    ELSE (IF rows[1].item = id THEN rows[1].quantity ELSE 0) + MovementSum(Tail(rows), id)

\* the two calls overlapped: one started while the other was running
Concurrent(p, q) == q \in tx[p].with \/ p \in tx[q].with

\* C1: every Item quantity is >= 0 in every reachable state, under any
\* interleaving of concurrent InventoryManager calls that hold their row locks
\* until commit or rollback.
C1_QuantityNeverNegative == \A id \in ItemIds : quantity[id] >= 0

\* two overlapping calls are over, a deduction that emptied item 1 and an
\* update that succeeded
C1_Witness ==
    \E p, q \in Procs :
        /\ p # q /\ Concurrent(p, q)
        /\ tx[p].pc = "done" /\ tx[p].op = "deduct" /\ tx[p].result.success
        /\ tx[q].pc = "done" /\ tx[q].op = "update" /\ tx[q].result.success
        /\ initial[1] > 0 /\ quantity[1] = 0

\* two overlapping deduct calls for item id, both over, each asking for half of
\* the stock they started with, plus one
HalfPlusOneRace(p, q, id) ==
    /\ p # q /\ Concurrent(p, q)
    /\ tx[p].pc = "done" /\ tx[p].op = "deduct"
    /\ tx[q].pc = "done" /\ tx[q].op = "deduct"
    /\ tx[p].stock0[id] >= 1
    /\ tx[q].stock0[id] = tx[p].stock0[id]
    /\ tx[p].input = <<Entry(id, tx[p].stock0[id] \div 2 + 1)>>
    /\ tx[q].input = tx[p].input

\* C2: of two concurrent deduct requests for the same item, each asking for half
\* of the available stock plus one, exactly one succeeds and the other fails
\* with an insufficient-stock error.
C2_ExactlyOneDeductSucceeds ==
    \A p, q \in Procs, id \in SharedIds :
        HalfPlusOneRace(p, q, id) =>
            /\ tx[p].result.success # tx[q].result.success
            /\ ~tx[p].result.success => tx[p].result.errors = <<"insufficient">>
            /\ ~tx[q].result.success => tx[q].result.errors = <<"insufficient">>

\* such a race on a stock of MaxStock is over and worker 2 won it
C2_Witness ==
    /\ HalfPlusOneRace(1, 2, 1)
    /\ tx[1].stock0[1] = MaxStock
    /\ tx[2].result.success

\* C4: for every item, the sum of the quantities of its StockMovement rows
\* equals its current quantity minus its quantity at creation.
C4_MovementsMatchQuantity ==
    \A id \in ItemIds : MovementSum(movements, id) = quantity[id] - initial[id]

-----------------------------------------------------------------------------
(* Properties of one call *)

\* the StockMovement rows the last call added
NewMovements == SubSeq(movements, Len(last.pre_movements) + 1, Len(movements))

\* validation refuses entry e of a deduct batch on stock dbq
DeductRefuses(e, dbq) ==
    \/ e.item_id = 0
    \/ e.quantity <= 0
    \/ e.item_id \notin ItemIds
    \/ is_deleted(e.item_id)
    \/ ~is_active(e.item_id)
    \/ dbq[e.item_id] < e.quantity

\* an update from original to updated needs an infeasible deduction or an
\* addition to a row that is not there
UpdateRefuses(original, updated, dbq) ==
    \E id \in ItemIds :
        /\ InDict(original, id) \/ InDict(updated, id)
        /\ DictGet0(original, id) # DictGet0(updated, id)
        /\ \/ is_deleted(id)
           \/ /\ DictGet0(updated, id) > DictGet0(original, id)
              /\ \/ ~is_active(id)
                 \/ dbq[id] < DictGet0(updated, id) - DictGet0(original, id)

LastFailedBatch ==
    \/ /\ last.op = "deduct"
       /\ \E k \in 1..Len(last.input) : DeductRefuses(last.input[k], last.pre_quantity)
    \/ /\ last.op = "update"
       /\ UpdateRefuses(last.original, last.input, last.pre_quantity)

\* C3: a deduct batch with an entry that fails validation, or an update one of
\* whose deductions or additions fails validation, returns success=false and
\* leaves every Item quantity and the StockMovement rows as they were.
C3_AllOrNothing ==
    /\ LastFailedBatch => ~last.success
    /\ (last.op \in {"deduct", "update"} /\ ~last.success) =>
           /\ quantity = last.pre_quantity
           /\ movements = last.pre_movements

\* a deduct batch whose first entry was feasible and whose second was not
C3_WitnessDeduct ==
    /\ last.op = "deduct" /\ Len(last.input) = 2
    /\ ~DeductRefuses(last.input[1], last.pre_quantity)
    /\ last.input[2].item_id \in ActiveIds
    /\ last.pre_quantity[last.input[2].item_id] < last.input[2].quantity
    /\ ~last.success

\* an update that had to restore item 1 and could not deduct item 2
C3_Witness ==
    /\ last.op = "update"
    /\ InDict(last.original, 1) /\ ~InDict(last.input, 1)
    /\ InDict(last.input, 2) /\ ~InDict(last.original, 2)
    /\ last.pre_quantity[2] < DictGet(last.input, 2)
    /\ ~last.success

\* the rows of NewMovements for item id
RowsFor(id) == SelectSeq(NewMovements, LAMBDA m : m.item = id)

\* original and updated name active items only, and the stock covers every increase
UpdateFeasible(original, updated, dbq) ==
    /\ \A k \in 1..Len(original) : original[k].item_id \in ActiveIds
    /\ \A k \in 1..Len(updated) : updated[k].item_id \in ActiveIds
    /\ \A id \in ActiveIds : DictGet0(updated, id) - DictGet0(original, id) <= dbq[id]

\* C7: update_stock_for_invoice_update, with at most one entry per item in each
\* list and enough stock, changes each item's quantity by exactly
\* original_qty - updated_qty (absent = 0), with one StockMovement of that signed
\* amount per changed item and none for an item whose quantity is the same or
\* that is in neither list.
C7_UpdateDiff ==
    (/\ last.op = "update"
     /\ UniqueItems(last.original) /\ UniqueItems(last.input)
     /\ UpdateFeasible(last.original, last.input, last.pre_quantity)) =>
        /\ last.success
        /\ \A id \in ItemIds :
              LET delta == DictGet0(last.original, id) - DictGet0(last.input, id)
              IN  /\ quantity[id] = last.pre_quantity[id] + delta
                  /\ delta = 0 => RowsFor(id) = <<>>
                  /\ delta # 0 => /\ Len(RowsFor(id)) = 1
                                  /\ RowsFor(id)[1].quantity = delta

\* the update of the example, scaled to the bounds: item 1 decreased by one,
\* item 2 added, item 3 in neither list
C7_Witness ==
    /\ last.op = "update" /\ last.success
    /\ last.original = <<Entry(1, 2)>>
    /\ last.input = <<Entry(1, 1), Entry(2, 2)>>
    /\ quantity[1] = last.pre_quantity[1] + 1
    /\ quantity[2] = last.pre_quantity[2] - 2
    /\ quantity[3] = last.pre_quantity[3]

-----------------------------------------------------------------------------
(* The invoice views, one request at a time.  Money is in paise.  A line   *)
(* row is an InvoiceItem / RetailInvoiceItem, an invoice row an Invoice /  *)
(* RetailInvoice; the id of a row is its index.                            *)

\* the rates of the submitted rows
Rates == {50}

\* Item.gst_percent of the Item rows
gst_percent(id) == CASE id = 1 -> 12 [] id = 2 -> 5 [] OTHER -> 0

\* Decimal.quantize(Decimal('0.01'), rounding=ROUND_HALF_UP) of n/d paise, n >= 0
RoundHalfUp(n, d) == (2 * n + d) \div (2 * d)

calculate_item_totals(qty, rate, gst_pct, discount_amount) ==
    LET base_amount == qty * rate
        gst_amount == RoundHalfUp(base_amount * gst_pct, 100)
    IN  [base_amount |-> base_amount, gst_amount |-> gst_amount,
         discount_amount |-> discount_amount,
         total |-> base_amount + gst_amount - discount_amount]

\* a submitted row; item_id 0 is a row without an inventory item
Row(id, q, rate) == [item_id |-> id, quantity |-> q, rate |-> rate]

LineItem(inv, id, q, rate, gst_amount, discount_amount) ==
    [invoice |-> inv, item |-> id, quantity |-> q, rate |-> rate,
     gst_amount |-> gst_amount, discount_amount |-> discount_amount,
     total |-> q * rate + gst_amount - discount_amount, is_active |-> TRUE]

InvoiceRow(kind, is_limit_enabled, limit_amount) ==
    [kind |-> kind, is_active |-> TRUE, base_amount |-> 0,
     is_limit_enabled |-> is_limit_enabled, limit_amount |-> limit_amount,
     total_gst |-> 0, total_discount |-> 0, final_amount |-> 0,
     payment_mode |-> "UNPAID", transaction_reference |-> "", payment_date |-> "",
     is_paid |-> FALSE]

\* what a request leaves behind, and how it ended
Response(dbq, dbm, invs, ls, outcome) ==
    [quantity |-> dbq, movements |-> dbm, invoices |-> invs, lines |-> ls,
     outcome |-> outcome, errors |-> <<>>]

\* a request refused by its stock check, with the unavailable items it reports
\* (one messages.error per item, or one joined message)
Refused(dbq, dbm, invs, ls, unavailable_items) ==
    [Response(dbq, dbm, invs, ls, "rejected") EXCEPT !.errors = unavailable_items]

RECURSIVE SortedSeq(_)
SortedSeq(S) ==
    IF S = {} THEN <<>>
    ELSE LET m == CHOOSE x \in S : \A y \in S : x <= y
         IN  <<m>> \o SortedSeq(S \ {m})

\* invoice.invoice_items.filter(is_active=True) / invoice.retail_items.filter(is_active=True)
ActiveLineIds(ls, inv) ==
    SortedSeq({k \in 1..Len(ls) : ls[k].invoice = inv /\ ls[k].is_active})

\* the {'item_id', 'quantity'} entries of the line items with an inventory item
RECURSIVE TrackedEntries(_)
TrackedEntries(rows) ==
    IF rows = <<>> THEN <<>>
    ELSE (IF rows[1].item_id # 0
          THEN <<Entry(rows[1].item_id, rows[1].quantity)>> ELSE <<>>)
         \o TrackedEntries(Tail(rows))

\* the line items ids of ls as submitted rows
RECURSIVE RowsOfLines(_, _)
RowsOfLines(ls, ids) ==
    IF ids = <<>> THEN <<>>
    ELSE <<Row(ls[ids[1]].item, ls[ids[1]].quantity, ls[ids[1]].rate)>>
         \o RowsOfLines(ls, Tail(ids))

\* map[item_id] = map.get(item_id, 0) + quantity: keys in the order of their
\* first occurrence, quantities summed
RECURSIVE SumMap(_)
SumMap(items) ==
    IF items = <<>> THEN <<>>
    ELSE LET d == SumMap(Front(items))
             e == items[Len(items)]
         IN  IF InDict(d, e.item_id)
             THEN [k \in 1..Len(d) |->
                      IF d[k].item_id = e.item_id
                      THEN Entry(e.item_id, d[k].quantity + e.quantity) ELSE d[k]]
             ELSE Append(d, Entry(e.item_id, e.quantity))

RECURSIVE SumField(_, _, _)
SumField(rows, ids, field) ==
    IF ids = <<>> THEN 0 ELSE rows[ids[1]][field] + SumField(rows, Tail(ids), field)

\* invoice.retail_returns.filter(is_active=True) / invoice.returns.filter(is_active=True)
ActiveReturnIds(rets, inv) ==
    SortedSeq({k \in 1..Len(rets) : rets[k].invoice = inv /\ rets[k].is_active})

Max(a, b) == IF a >= b THEN a ELSE b

\* invoice.payments.filter(is_active=True)
ActivePaymentIds(pays, inv) ==
    SortedSeq({k \in 1..Len(pays) : pays[k].invoice = inv /\ pays[k].is_active})

\* the properties Invoice.total_return, Invoice.total_paid and Invoice.total_amount,
\* on the Return rows rets and the Payment rows pays
Invoice_total_return(rets, inv) == SumField(rets, ActiveReturnIds(rets, inv), "amount")

Invoice_total_paid(pays, inv) == SumField(pays, ActivePaymentIds(pays, inv), "amount")

Invoice_total_amount(invs, rets, inv) ==
    Max(invs[inv].base_amount - Invoice_total_return(rets, inv), 0)

RECURSIVE SumTotals(_, _)
SumTotals(ls, ids) ==
    IF ids = <<>> THEN 0 ELSE ls[ids[1]].total + SumTotals(ls, Tail(ids))

\* Invoice.recalculate_base_amount: the sum of the totals of the active line
\* items, and is_paid against that sum
recalculate_base_amount(invs, ls, inv) ==
    LET total == SumTotals(ls, ActiveLineIds(ls, inv))
    IN  [invs EXCEPT ![inv].base_amount = total,
                     ![inv].is_paid = Invoice_total_paid(payments, inv) >= total]

recalc_invoice_payment_status(invs, rets, pays, inv) ==
    [invs EXCEPT ![inv].is_paid =
        Invoice_total_paid(pays, inv) >= Invoice_total_amount(invs, rets, inv)]

\* the post_save / post_delete signal of InvoiceItem
invoice_item_changed(invs, ls, inv) ==
    recalc_invoice_payment_status(recalculate_base_amount(invs, ls, inv),
                                  returns, payments, inv)

\* check_and_close_invoice: the balance takes the returns off total_amount, which
\* is already net of them
check_and_close_invoice(invs, rets, pays, inv) ==
    LET balance == Invoice_total_amount(invs, rets, inv) - Invoice_total_paid(pays, inv)
                   - Invoice_total_return(rets, inv)
    IN  IF balance <= 0 /\ ~invs[inv].is_paid
        THEN [invs EXCEPT ![inv].is_paid = TRUE]
        ELSE invs

\* check_stock_availability: the reason an entry is unavailable, "" if it is not
UnavailableReason(dbq, e) ==
    IF e.item_id = 0 \/ e.quantity <= 0 THEN ""
    ELSE IF ~RowFound(e.item_id) THEN "not_found"
    ELSE IF ~is_active(e.item_id) THEN "inactive"
    ELSE IF dbq[e.item_id] < e.quantity THEN "insufficient"
    ELSE ""

\* the check stopping at the first unavailable item
check_stock_availability_FirstOnly(dbq, items_to_check) ==
    LET bad == {k \in 1..Len(items_to_check) :
                   UnavailableReason(dbq, items_to_check[k]) # ""}
        k1 == CHOOSE k \in bad : \A j \in bad : k <= j
    IN  IF bad = {} THEN <<>>
        ELSE <<[item_id |-> items_to_check[k1].item_id,
                reason |-> UnavailableReason(dbq, items_to_check[k1])]>>

\* check_stock_availability(items_to_check)['unavailable_items']
RECURSIVE check_stock_availability(_, _)
check_stock_availability(dbq, items_to_check) ==
    IF items_to_check = <<>> THEN <<>>
    ELSE LET e == items_to_check[1]
             r == UnavailableReason(dbq, e)
         IN  (IF r = "" THEN <<>> ELSE <<[item_id |-> e.item_id, reason |-> r]>>)
             \o check_stock_availability(dbq, Tail(items_to_check))

\* check_stock_for_invoice_update: each updated entry against the original dict
UpdateUnavailableReason(dbq, original_dict, e) ==
    LET additional_needed == e.quantity - DictGet0(original_dict, e.item_id)
    IN  IF additional_needed <= 0 THEN ""
        ELSE IF ~RowFound(e.item_id) THEN "not_found"
        ELSE IF ~is_active(e.item_id) THEN "inactive"
        ELSE IF dbq[e.item_id] < additional_needed THEN "insufficient"
        ELSE ""

RECURSIVE CheckUpdated(_, _, _)
CheckUpdated(dbq, original_dict, updated_items) ==
    IF updated_items = <<>> THEN <<>>
    ELSE LET e == updated_items[1]
             r == UpdateUnavailableReason(dbq, original_dict, e)
         IN  (IF r = "" THEN <<>> ELSE <<[item_id |-> e.item_id, reason |-> r]>>)
             \o CheckUpdated(dbq, original_dict, Tail(updated_items))

check_stock_for_invoice_update(dbq, original_items, updated_items) ==
    CheckUpdated(dbq, DictOf(original_items), updated_items)

-----------------------------------------------------------------------------
(* The wholesale views (billing/views.py) *)

\* InvoiceItem.objects.create(...) for every submitted row
RECURSIVE WholesaleLines(_, _)
WholesaleLines(inv, rows) ==
    IF rows = <<>> THEN <<>>
    ELSE LET r == rows[1]
             calculated == calculate_item_totals(r.quantity, r.rate,
                                                 gst_percent(r.item_id), 0)
         IN  <<LineItem(inv, r.item_id, r.quantity, r.rate,
                        calculated.gst_amount, calculated.discount_amount)>>
             \o WholesaleLines(inv, Tail(rows))

RECURSIVE SumLineTotals(_)
SumLineTotals(ls) == IF ls = <<>> THEN 0 ELSE ls[1].total + SumLineTotals(Tail(ls))

\* InvoiceCreateView.post, decorated with @transaction.atomic: every exception is
\* caught inside the method, which then returns the form page, so the transaction
\* commits what was written before the exception
InvoiceCreateView_post(dbq, dbm, invs, ls, rows, is_limit_enabled, limit_amount) ==
    LET stock_check == check_stock_availability(dbq, TrackedEntries(rows))
        inv == Len(invs) + 1
        saved == Append(invs, InvoiceRow("wholesale", is_limit_enabled, limit_amount))
        created == WholesaleLines(inv, rows)
        total_amount == SumLineTotals(created)
        ls1 == ls \o created
        with_items == invoice_item_changed(saved, ls1, inv)
        items_for_inventory == TrackedEntries(rows)
        first == deduct_stock_for_invoice(dbq, dbm, items_for_inventory,
                                          "wholesale", inv)
        second == deduct_stock_for_invoice(first.quantity, first.movements,
                                           items_for_inventory, "wholesale", inv)
    IN  IF stock_check # <<>>
        THEN Refused(dbq, dbm, invs, ls, stock_check)
        ELSE IF is_limit_enabled /\ total_amount > limit_amount
        THEN Response(dbq, dbm, saved, ls, "error")
        ELSE IF items_for_inventory = <<>>
        THEN Response(dbq, dbm, [with_items EXCEPT ![inv].base_amount = total_amount],
                      ls1, "ok")
        ELSE IF ~first.success
        THEN Response(dbq, dbm, with_items, ls1, "error")
        ELSE IF ~second.success
        THEN Response(first.quantity, first.movements, with_items, ls1, "error")
        ELSE Response(second.quantity, second.movements,
                      [with_items EXCEPT ![inv].base_amount = total_amount], ls1, "ok")

\* what the submitted formset does to the active line items ids: edits[k] = -1
\* marks line ids[k] for deletion, any other value is its submitted quantity
ChangedIds(ls, ids, edits) ==
    SelectSeq(ids, LAMBDA id : \E k \in 1..Len(ids) :
                  ids[k] = id /\ edits[k] # -1 /\ edits[k] # ls[id].quantity)

DeletedIds(ids, edits) ==
    SelectSeq(ids, LAMBDA id : \E k \in 1..Len(ids) : ids[k] = id /\ edits[k] = -1)

EditOf(ids, edits, id) == edits[CHOOSE k \in 1..Len(ids) : ids[k] = id]

\* a changed line item with its totals recalculated, as item.save() stores it
SavedLine(l, q) ==
    IF l.item # 0
    THEN LineItem(l.invoice, l.item, q, l.rate,
                  calculate_item_totals(q, l.rate, gst_percent(l.item),
                                        l.discount_amount).gst_amount,
                  l.discount_amount)
    ELSE LineItem(l.invoice, l.item, q, l.rate, l.gst_amount, l.discount_amount)

\* InvoiceUpdateView.post, decorated with @transaction.atomic like the creation.
\* items = formset.save(commit=False) holds the changed and the new forms only.
InvoiceUpdateView_post(dbq, dbm, invs, ls, inv, edits, new_rows) ==
    LET ids == ActiveLineIds(ls, inv)
        original_items == SumMap(TrackedEntries(RowsOfLines(ls, ids)))
        changed == ChangedIds(ls, ids, edits)
        deleted == DeletedIds(ids, edits)
        in_set(q, id) == \E k \in 1..Len(q) : q[k] = id
        saved == [id \in 1..Len(ls) |->
                     IF in_set(changed, id) THEN SavedLine(ls[id], EditOf(ids, edits, id))
                     ELSE ls[id]]
                 \o WholesaleLines(inv, new_rows)
        ls1 == [id \in 1..Len(saved) |->
                   IF in_set(deleted, id) THEN [saved[id] EXCEPT !.is_active = FALSE]
                   ELSE saved[id]]
        items == [k \in 1..Len(changed) |-> changed[k]]
                 \o [k \in 1..Len(new_rows) |-> Len(ls) + k]
        total == SumTotals(ls1, items)
        updated_items == SumMap(TrackedEntries(RowsOfLines(ls1, items)))
        \* the invoice object of the view after the signals of its saved items
        invoice == IF items = <<>> THEN invs ELSE invoice_item_changed(invs, saved, inv)
        \* the invoice row after the signals of the deleted items as well
        with_items == IF deleted = <<>> THEN invoice
                      ELSE invoice_item_changed(invoice, ls1, inv)
        closed == check_and_close_invoice([invoice EXCEPT ![inv].base_amount = total],
                                          returns, payments, inv)
        stock == update_stock_for_invoice_update(dbq, dbm, original_items,
                                                 updated_items, "wholesale", inv)
    IN  IF original_items = <<>> /\ updated_items = <<>>
        THEN Response(dbq, dbm, closed, ls1, "ok")
        ELSE IF ~stock.success
        THEN Response(dbq, dbm, with_items, ls1, "error")
        ELSE Response(stock.quantity, stock.movements, closed, ls1, "ok")

\* invoice_delete with delete_type = 'soft'; one transaction
invoice_delete(dbq, dbm, invs, ls, inv) ==
    LET items_to_restore == TrackedEntries(RowsOfLines(ls, ActiveLineIds(ls, inv)))
        restore == restore_stock_for_invoice_deletion(dbq, dbm, items_to_restore,
                                                      "wholesale", inv)
        gone == [invs EXCEPT ![inv].is_active = FALSE]
    IN  IF items_to_restore = <<>>
        THEN Response(dbq, dbm, gone, ls, "ok")
        ELSE Response(restore.quantity, restore.movements, gone, ls, "ok")

-----------------------------------------------------------------------------
(* The retail views (retailapp/views.py).  The rows are submitted with      *)
(* gst_percent = 0 and discount_percent = 0.                                *)

\* RetailInvoiceItem.objects.create(...) for every parsed row
RECURSIVE RetailLines(_, _)
RetailLines(inv, rows) ==
    IF rows = <<>> THEN <<>>
    ELSE <<LineItem(inv, rows[1].item_id, rows[1].quantity, rows[1].rate, 0, 0)>>
         \o RetailLines(inv, Tail(rows))

\* RetailInvoice.recalculate_totals: base_amount is the sum of the base amounts
\* of the active line items
RECURSIVE SumBase(_, _)
SumBase(ls, ids) ==
    IF ids = <<>> THEN 0
    ELSE ls[ids[1]].quantity * ls[ids[1]].rate + SumBase(ls, Tail(ids))

\* a recomputation that adds the line items to the stored base amount
recalculate_totals_Accumulating(invs, ls, rets, inv) ==
    LET items == ActiveLineIds(ls, inv)
        base == invs[inv].base_amount + SumBase(ls, items)
        gst == SumField(ls, items, "gst_amount")
        discount == SumField(ls, items, "discount_amount")
        returns_total == SumField(rets, ActiveReturnIds(rets, inv), "amount")
        final == Max(base + gst - discount - returns_total, 0)
        should_auto_settle == final <= 0 /\ invs[inv].payment_mode = "UNPAID"
    IN  [invs EXCEPT ![inv].base_amount = base,
                     ![inv].total_gst = gst,
                     ![inv].total_discount = discount,
                     ![inv].final_amount = final,
                     ![inv].payment_mode = IF should_auto_settle THEN "OTHER" ELSE @,
                     ![inv].transaction_reference =
                         IF should_auto_settle THEN "SETTLED_BY_RETURN" ELSE @,
                     ![inv].payment_date = IF should_auto_settle THEN "now" ELSE @]

\* a recomputation that settles every invoice whose final amount is zero
recalculate_totals_SettlesPaid(invs, ls, rets, inv) ==
    LET items == ActiveLineIds(ls, inv)
        base == SumBase(ls, items)
        gst == SumField(ls, items, "gst_amount")
        discount == SumField(ls, items, "discount_amount")
        returns_total == SumField(rets, ActiveReturnIds(rets, inv), "amount")
        final == Max(base + gst - discount - returns_total, 0)
        should_auto_settle == final <= 0
    IN  [invs EXCEPT ![inv].base_amount = base,
                     ![inv].total_gst = gst,
                     ![inv].total_discount = discount,
                     ![inv].final_amount = final,
                     ![inv].payment_mode = IF should_auto_settle THEN "OTHER" ELSE @,
                     ![inv].transaction_reference =
                         IF should_auto_settle THEN "SETTLED_BY_RETURN" ELSE @,
                     ![inv].payment_date = IF should_auto_settle THEN "now" ELSE @]

\* RetailInvoice.recalculate_totals on the return rows rets: the sums over the
\* active line items, the final amount net of the active returns and floored at
\* zero, and the settlement of an unpaid invoice whose final amount is zero
recalculate_totals(invs, ls, rets, inv) ==
    LET items == ActiveLineIds(ls, inv)
        base == SumBase(ls, items)
        gst == SumField(ls, items, "gst_amount")
        discount == SumField(ls, items, "discount_amount")
        returns_total == SumField(rets, ActiveReturnIds(rets, inv), "amount")
        final == Max(base + gst - discount - returns_total, 0)
        should_auto_settle == final <= 0 /\ invs[inv].payment_mode = "UNPAID"
    IN  [invs EXCEPT ![inv].base_amount = base,
                     ![inv].total_gst = gst,
                     ![inv].total_discount = discount,
                     ![inv].final_amount = final,
                     ![inv].payment_mode = IF should_auto_settle THEN "OTHER" ELSE @,
                     ![inv].transaction_reference =
                         IF should_auto_settle THEN "SETTLED_BY_RETURN" ELSE @,
                     ![inv].payment_date = IF should_auto_settle THEN "now" ELSE @]

\* the stock_errors of RetailInvoiceCreateView.post: every row with an item id
\* against items_dict (the active, not deleted items) and its quantity
RECURSIVE StockErrors(_, _)
StockErrors(dbq, rows) ==
    IF rows = <<>> THEN <<>>
    ELSE LET r == rows[1]
             e == IF r.item_id = 0 THEN ""
                  ELSE IF ~(RowFound(r.item_id) /\ is_active(r.item_id))
                  THEN "not_found_or_inactive"
                  ELSE IF dbq[r.item_id] < r.quantity THEN "insufficient"
                  ELSE ""
         IN  (IF e = "" THEN <<>> ELSE <<[item_id |-> r.item_id, reason |-> e]>>)
             \o StockErrors(dbq, Tail(rows))

\* the one deduction of the retail creation
RetailDeduct_Twice(dbq, dbm, created_invoice_items, inv) ==
    LET first == deduct_stock_for_invoice(dbq, dbm, created_invoice_items, "retail", inv)
    IN  IF first.success
        THEN deduct_stock_for_invoice(first.quantity, first.movements,
                                      created_invoice_items, "retail", inv)
        ELSE first

RetailDeduct(dbq, dbm, created_invoice_items, inv) ==
    deduct_stock_for_invoice(dbq, dbm, created_invoice_items, "retail", inv)

\* RetailInvoiceCreateView.post: the invoice, its line items and the deduction
\* are written inside `with transaction.atomic()`, which an exception leaves
RetailInvoiceCreateView_post(dbq, dbm, invs, ls, rows) ==
    LET inv == Len(invs) + 1
        saved == Append(invs, InvoiceRow("retail", FALSE, 0))
        ls1 == ls \o RetailLines(inv, rows)
        created_invoice_items == TrackedEntries(rows)
        stock_result == RetailDeduct(dbq, dbm, created_invoice_items, inv)
    IN  IF rows = <<>> \/ StockErrors(dbq, rows) # <<>>
        THEN Refused(dbq, dbm, invs, ls, StockErrors(dbq, rows))
        ELSE IF created_invoice_items = <<>>
        THEN Response(dbq, dbm, recalculate_totals(saved, ls1, returns, inv), ls1, "ok")
        ELSE IF ~stock_result.success
        THEN Response(dbq, dbm, invs, ls, "error")
        ELSE Response(stock_result.quantity, stock_result.movements,
                      recalculate_totals(saved, ls1, returns, inv), ls1, "ok")

\* RetailInvoiceUpdateView.post: the stock check before the transaction, then the
\* active line items deactivated, one new line item per row, and the differential
\* update with one updated entry per row
RetailInvoiceUpdateView_post(dbq, dbm, invs, ls, inv, rows) ==
    LET ids == ActiveLineIds(ls, inv)
        original_items == SumMap(TrackedEntries(RowsOfLines(ls, ids)))
        updated_items_for_inventory == TrackedEntries(rows)
        stock_check == check_stock_for_invoice_update(dbq, original_items,
                                                      updated_items_for_inventory)
        deactivated == [id \in 1..Len(ls) |->
                           IF ls[id].invoice = inv THEN [ls[id] EXCEPT !.is_active = FALSE]
                           ELSE ls[id]]
        ls1 == deactivated \o RetailLines(inv, rows)
        new_invoice_items == TrackedEntries(rows)
        totalled == IF rows = <<>> THEN invs ELSE recalculate_totals(invs, ls1, returns, inv)
        stock == update_stock_for_invoice_update(dbq, dbm, original_items,
                                                 new_invoice_items, "retail", inv)
    IN  IF stock_check # <<>>
        THEN Refused(dbq, dbm, invs, ls, stock_check)
        ELSE IF original_items = <<>> /\ new_invoice_items = <<>>
        THEN Response(dbq, dbm, totalled, ls1, "ok")
        ELSE IF ~stock.success
        THEN Response(dbq, dbm, invs, ls, "error")
        ELSE Response(stock.quantity, stock.movements, totalled, ls1, "ok")

\* retail_invoice_delete: one transaction
retail_invoice_delete(dbq, dbm, invs, ls, inv) ==
    LET items_to_restore == TrackedEntries(RowsOfLines(ls, ActiveLineIds(ls, inv)))
        restore == restore_stock_for_invoice_deletion(dbq, dbm, items_to_restore,
                                                      "retail", inv)
        gone == [invs EXCEPT ![inv].is_active = FALSE]
    IN  IF items_to_restore = <<>>
        THEN Response(dbq, dbm, gone, ls, "ok")
        ELSE Response(restore.quantity, restore.movements, gone, ls, "ok")

-----------------------------------------------------------------------------
(* SpecViews: one invoice, wholesale or retail, from its creation through   *)
(* at most one update to its deletion, one request at a time.  `last` keeps *)
(* the request, the state before it, how it ended and the requests so far.  *)

\* Invoice.limit_amount of the created invoice
LimitAmounts == {60}

\* the number of rows a creation submits, of rows a wholesale update adds, and
\* of rows a retail update submits
RowCounts == 1..2

NewRowCounts == 0..1

UpdateRowCounts == 0..2

WholesaleRows == {Row(id, q, rate) : id \in ItemIds, q \in 1..MaxQty, rate \in Rates}

RetailRows == {Row(id, q, rate) : id \in 0..5, q \in 1..MaxQty, rate \in Rates}

\* the rows an update adds or submits name active items or no item
WholesaleNewRows == {r \in WholesaleRows : r.item_id \in ActiveIds}

RetailUpdateRows == {r \in RetailRows : r.item_id \in ActiveIds \cup {0}}

History == IF last.op = "none" THEN <<>> ELSE last.history

Requested(op, input, edits, r) ==
    /\ last' = [op |-> op, input |-> input, edits |-> edits,
                pre_quantity |-> quantity, pre_movements |-> movements,
                pre_invoices |-> invoices, pre_lines |-> lines,
                outcome |-> r.outcome, errors |-> r.errors,
                history |-> Append(History, <<op, r.outcome>>)]
    /\ quantity' = r.quantity
    /\ movements' = r.movements
    /\ invoices' = r.invoices
    /\ lines' = r.lines
    /\ UNCHANGED <<tx, initial, others>>

\* get_object_or_404(Invoice / RetailInvoice, id=invoice_id, is_active=True)
Found(inv, kind) ==
    inv \in 1..Len(invoices) /\ invoices[inv].kind = kind /\ invoices[inv].is_active

NotUpdatedYet == \A k \in 1..Len(History) : History[k][1] \notin {"wholesale_update", "retail_update"}

WholesaleCreate ==
    /\ last.op = "none"
    /\ \E rows \in SeqsOf(WholesaleRows, RowCounts), is_limit_enabled \in BOOLEAN,
          limit_amount \in LimitAmounts :
        Requested("wholesale_create", rows, <<>>,
                  InvoiceCreateView_post(quantity, movements, invoices, lines, rows,
                                         is_limit_enabled, limit_amount))

WholesaleUpdate ==
    /\ Found(1, "wholesale")
    /\ NotUpdatedYet
    /\ \E edits \in [1..Len(ActiveLineIds(lines, 1)) -> {-1} \cup 1..MaxQty],
          new_rows \in SeqsOf(WholesaleNewRows, NewRowCounts) :
        Requested("wholesale_update", new_rows, edits,
                  InvoiceUpdateView_post(quantity, movements, invoices, lines, 1,
                                         edits, new_rows))

WholesaleDelete ==
    /\ Found(1, "wholesale")
    /\ Requested("wholesale_delete", <<>>, <<>>,
                 invoice_delete(quantity, movements, invoices, lines, 1))

RetailCreate ==
    /\ last.op = "none"
    /\ \E rows \in SeqsOf(RetailRows, RowCounts) :
        Requested("retail_create", rows, <<>>,
                  RetailInvoiceCreateView_post(quantity, movements, invoices, lines, rows))

RetailUpdate ==
    /\ Found(1, "retail")
    /\ NotUpdatedYet
    /\ \E rows \in SeqsOf(RetailUpdateRows, UpdateRowCounts) :
        Requested("retail_update", rows, <<>>,
                  RetailInvoiceUpdateView_post(quantity, movements, invoices, lines, 1, rows))

RetailDelete ==
    /\ Found(1, "retail")
    /\ Requested("retail_delete", <<>>, <<>>,
                 retail_invoice_delete(quantity, movements, invoices, lines, 1))

NextViews ==
    \/ WholesaleCreate \/ WholesaleUpdate \/ WholesaleDelete
    \/ RetailCreate \/ RetailUpdate \/ RetailDelete

SpecViews == InitLedger /\ [][NextViews]_vars

-----------------------------------------------------------------------------
(* Properties of the views *)

\* the invoice was created and then deleted, both requests succeeded, and no
\* other request came in between
RoundTrip(kind) ==
    /\ last.op = kind \o "_delete"
    /\ last.history = << <<kind \o "_create", "ok">>, <<kind \o "_delete", "ok">> >>

\* the line items with an inventory item name distinct items
DistinctTrackedItems ==
    \A j, k \in 1..Len(lines) :
        (lines[j].item # 0 /\ lines[j].item = lines[k].item) => j = k

\* the quantity of every item of a line item is what it was before the creation
StockAsBeforeCreation ==
    \A k \in 1..Len(lines) :
        lines[k].item # 0 => quantity[lines[k].item] = initial[lines[k].item]

\* C5: a wholesale invoice with line items on distinct tracked items, created
\* through InvoiceCreateView.post and then deleted through invoice_delete with
\* nothing in between, leaves the quantity of every such item as it was before
\* the creation.
C5_WholesaleRoundTrip ==
    (RoundTrip("wholesale") /\ DistinctTrackedItems) => StockAsBeforeCreation

\* C6: a retail invoice with line items on distinct tracked items, created
\* through RetailInvoiceCreateView.post and then deleted through
\* retail_invoice_delete with nothing in between, leaves the quantity of every
\* such item as it was before the creation.
C6_RetailRoundTrip ==
    (RoundTrip("retail") /\ DistinctTrackedItems) => StockAsBeforeCreation

\* a retail invoice for all the stock of item 1 and one unit of item 2, created
\* and deleted
C6_Witness ==
    /\ RoundTrip("retail")
    /\ Len(lines) = 2
    /\ lines[1].item = 1 /\ lines[1].quantity = initial[1]
    /\ lines[2].item = 2 /\ lines[2].quantity = 1
    /\ Len(movements) = 4
    /\ quantity = initial

\* the line items the wholesale update found, and what it submitted for them
UpdateLineIds == ActiveLineIds(last.pre_lines, 1)

\* line k of the update was left as it was, on an item that no other line and no
\* new row names, while another line was changed or deleted or a row was added
LeftUnchanged(k) ==
    LET l == last.pre_lines[UpdateLineIds[k]]
    IN  /\ l.item # 0
        /\ last.edits[k] = l.quantity
        /\ \A j \in 1..Len(UpdateLineIds) :
              j # k => last.pre_lines[UpdateLineIds[j]].item # l.item
        /\ \A j \in 1..Len(last.input) : last.input[j].item_id # l.item
        /\ \/ last.input # <<>>
           \/ \E j \in 1..Len(UpdateLineIds) :
                 last.edits[j] # last.pre_lines[UpdateLineIds[j]].quantity

\* C8: a wholesale update that changes or adds line items and leaves another
\* tracked line item unchanged does not modify the stock of the unchanged line's
\* item and records no StockMovement for it.
C8_UnchangedLineUntouched ==
    last.op = "wholesale_update" =>
        \A k \in 1..Len(UpdateLineIds) :
            LeftUnchanged(k) =>
                LET id == last.pre_lines[UpdateLineIds[k]].item
                IN  /\ quantity[id] = last.pre_quantity[id]
                    /\ RowsFor(id) = <<>>

\* the sum of the quantities of the active line items of the invoice on item id
\* before the retail update, and of the submitted rows on item id
OriginalSum(id) ==
    SumSeq([k \in 1..Len(last.pre_lines) |->
               IF last.pre_lines[k].is_active /\ last.pre_lines[k].item = id
               THEN last.pre_lines[k].quantity ELSE 0])

SubmittedSum(id) ==
    SumSeq([k \in 1..Len(last.input) |->
               IF last.input[k].item_id = id THEN last.input[k].quantity ELSE 0])

SameItemTwice ==
    \E j, k \in 1..Len(last.input) :
        j # k /\ last.input[j].item_id # 0 /\ last.input[j].item_id = last.input[k].item_id

\* C9: a retail update whose rows name the same item more than once sums the
\* rows of an item before diffing: the stock check refuses the update exactly
\* when (submitted sum - original sum) exceeds the stock of some item, and a
\* successful update changes the quantity of each item by exactly
\* (original sum) - (submitted sum).
C9_RetailRowsSummed ==
    (last.op = "retail_update" /\ SameItemTwice) =>
        /\ last.outcome = "rejected" <=>
              \E id \in ItemIds :
                  SubmittedSum(id) - OriginalSum(id) > last.pre_quantity[id]
        /\ last.outcome = "ok" =>
              \A id \in ItemIds :
                  quantity[id] = last.pre_quantity[id] + OriginalSum(id) - SubmittedSum(id)

\* C10: a wholesale creation that ends in an error after the Invoice row was
\* saved persists nothing: no Invoice row, no InvoiceItem row, no StockMovement
\* row and no change to any Item quantity.
C10_FailedCreatePersistsNothing ==
    (last.op = "wholesale_create" /\ last.outcome = "error") =>
        /\ invoices = last.pre_invoices
        /\ lines = last.pre_lines
        /\ movements = last.pre_movements
        /\ quantity = last.pre_quantity

\* row r of a creation names an inventory item that is missing, inactive or
\* short of stock
RowUnavailable(r, dbq) ==
    /\ r.item_id # 0
    /\ \/ r.item_id \notin ItemIds
       \/ is_deleted(r.item_id)
       \/ ~is_active(r.item_id)
       \/ dbq[r.item_id] < r.quantity

\* the item ids of the unavailable rows of the last creation, in row order
UnavailableIds ==
    LET bad == SelectSeq(last.input, LAMBDA r : RowUnavailable(r, last.pre_quantity))
    IN  [k \in 1..Len(bad) |-> bad[k].item_id]

ReportedIds == [k \in 1..Len(last.errors) |-> last.errors[k].item_id]

\* C11: a creation, retail or wholesale, with at least one unavailable tracked
\* row (item missing, inactive, or quantity above the stock) is rejected before
\* any Invoice, line-item or StockMovement row is created, with every Item
\* quantity unchanged, and every unavailable row is reported.
C11_CreateRejectsUnavailable ==
    (last.op \in {"wholesale_create", "retail_create"} /\ UnavailableIds # <<>>) =>
        /\ last.outcome = "rejected"
        /\ invoices = <<>> /\ lines = <<>> /\ movements = <<>>
        /\ quantity = last.pre_quantity
        /\ ReportedIds = UnavailableIds

\* a wholesale creation with an inactive item and a soft-deleted item, and a
\* retail creation with an item short of stock and an inactive item, both
\* reported
C11_Witness ==
    /\ last.op \in {"wholesale_create", "retail_create"}
    /\ last.outcome = "rejected"
    /\ Len(last.errors) = 2
    /\ \/ /\ last.op = "wholesale_create"
          /\ last.errors[1].reason = "inactive" /\ last.errors[2].reason = "not_found"
       \/ /\ last.op = "retail_create"
          /\ last.errors[1].reason = "insufficient"
          /\ last.errors[2].reason = "not_found_or_inactive"

-----------------------------------------------------------------------------
(* Retail returns (retailapp/views.py RetailReturnCreateView, the admin's   *)
(* RetailReturn form, retailapp/models.py RetailReturn).  A return row      *)
(* names its invoice and its line item (0: a manual return without one).    *)

\* Decimal.quantize(Decimal('0.01')) of n/d paise, n >= 0: ROUND_HALF_EVEN
RoundHalfEven(n, d) ==
    LET q == n \div d
        r == n % d
    IN  IF 2 * r > d \/ (2 * r = d /\ q % 2 = 1) THEN q + 1 ELSE q

ReturnRow(inv, item, q, amount) ==
    [invoice |-> inv, item |-> item, quantity |-> q, amount |-> amount,
     is_active |-> TRUE]

\* RetailReturn.objects.filter(item=item, is_active=True)
ItemReturnIds(rets, item) ==
    SortedSeq({k \in 1..Len(rets) : rets[k].item = item /\ rets[k].is_active})

\* aggregate(Sum('quantity')) over these rows, where there are any
ReturnedQuantity(rets, item) == SumField(rets, ItemReturnIds(rets, item), "quantity")

\* RetailInvoiceItem.objects.get(id=item_id, invoice=invoice, is_active=True)
LineFound(ls, inv, item) ==
    item \in 1..Len(ls) /\ ls[item].invoice = inv /\ ls[item].is_active

\* the share of the line total, rounded once after the multiplication
PerUnitAmount_RoundedLast(ls, item, q) ==
    RoundHalfEven(ls[item].total * q, ls[item].quantity)

\* (item.total / item.quantity).quantize(0.01) * quantity, quantized
PerUnitAmount(ls, item, q) ==
    RoundHalfEven(RoundHalfEven(ls[item].total, ls[item].quantity) * q, 1)

\* the amount the view posts: calculated when an item is selected and the amount
\* is not positive
PostedAmount(ls, inv, item, q, amount) ==
    IF item # 0 /\ amount <= 0 /\ LineFound(ls, inv, item)
       /\ ls[item].quantity > 0 /\ ls[item].total # 0
    THEN PerUnitAmount(ls, item, q)
    ELSE amount

\* remaining_qty = item.quantity - aggregate(...)['total'] or 0, which Python
\* reads as (item.quantity - total) or 0: with no active return of the line item
\* the total is None and the subtraction raises TypeError
RemainingRaises(rets, item) == ItemReturnIds(rets, item) = <<>>

remaining_qty(ls, rets, item) == ls[item].quantity - ReturnedQuantity(rets, item)

\* what RetailReturnCreateView.post decides before it saves anything: "" to go
\* on, or the reason the request ends
ReturnCheck(ls, rets, inv, item, q, amount) ==
    LET posted == PostedAmount(ls, inv, item, q, amount)
    IN  IF q <= 0 \/ posted <= 0 THEN "invalid"
        ELSE IF item # 0 /\ ~LineFound(ls, inv, item) THEN "item_not_found"
        ELSE IF item # 0 /\ RemainingRaises(rets, item) THEN "type_error"
        ELSE IF item # 0 /\ q > remaining_qty(ls, rets, item) THEN "exceeds_remaining"
        ELSE ""

\* RetailReturn.clean, run by the admin form and by save(): "" or the error
clean(ls, rets, item, q, amount) ==
    IF item # 0
    THEN (IF q > Max(ls[item].quantity - ReturnedQuantity(rets, item), 0)
          THEN "exceeds_remaining" ELSE "")
    ELSE (IF amount <= 0 THEN "amount_required" ELSE "")

\* RetailReturn.save: the amount of a return with a line item is calculated from
\* the line item, and no amount is negative; the row is inserted and the
\* post_save signal recalculates the totals of the invoice
ReturnSaved(invs, ls, rets, inv, item, q, amount) ==
    LET calculated == IF item # 0 /\ ls[item].quantity > 0 /\ ls[item].total # 0
                      THEN PerUnitAmount(ls, item, q) ELSE amount
        rets1 == Append(rets, ReturnRow(inv, item, q, Max(calculated, 0)))
    IN  [returns |-> rets1, invoices |-> recalculate_totals(invs, ls, rets1, inv)]

\* what a return request leaves behind, and how it ended
ReturnResponse(dbq, dbm, invs, rets, outcome, error) ==
    [quantity |-> dbq, movements |-> dbm, invoices |-> invs, returns |-> rets,
     outcome |-> outcome, error |-> error]

\* the rest of RetailReturnCreateView.post, inside `with transaction.atomic()`:
\* the return saved without validation, and the stock of its inventory item
\* restored where that item is still there
RetailReturnCreateView_save(dbq, dbm, invs, ls, rets, inv, item, q, amount) ==
    LET saved == ReturnSaved(invs, ls, rets, inv, item, q,
                             PostedAmount(ls, inv, item, q, amount))
        id == ls[item].item
        item_exists == RowFound(id) /\ is_active(id)
        stock_return_result == add_stock_for_return(dbq, dbm, <<Entry(id, q)>>,
                                                    "retail", inv)
    IN  IF item = 0 \/ id = 0 \/ ~item_exists
        THEN ReturnResponse(dbq, dbm, saved.invoices, saved.returns, "ok", "")
        ELSE IF ~stock_return_result.success
        THEN ReturnResponse(dbq, dbm, invs, rets, "error", "stock")
        ELSE ReturnResponse(stock_return_result.quantity, stock_return_result.movements,
                            saved.invoices, saved.returns, "ok", "")

\* the whole request, nothing else running
RetailReturnCreateView_post(dbq, dbm, invs, ls, rets, inv, item, q, amount) ==
    LET error == ReturnCheck(ls, rets, inv, item, q, amount)
    IN  IF error # ""
        THEN ReturnResponse(dbq, dbm, invs, rets,
                            IF error = "invalid" THEN "rejected" ELSE "error", error)
        ELSE RetailReturnCreateView_save(dbq, dbm, invs, ls, rets, inv, item, q, amount)

-----------------------------------------------------------------------------
(* SpecReturns: one retail invoice and the return requests against it, from *)
(* the view and from the admin, by two workers.  A request reads the return *)
(* rows when it checks the quantity and writes when it saves; no row is     *)
(* locked in between.                                                       *)

\* the rows of the invoice
ReturnInvoiceRows == {Row(id, q, rate) : id \in 0..2, q \in 1..MaxQty, rate \in Rates}

\* the amounts a request posts: none, or a manual amount
ReturnAmounts == {0, 200}

\* the number of return rows and running requests
ReturnCounts == 0..2

InitReturns ==
    /\ challans = <<>>
    /\ returns = <<>>
    /\ payments = <<>>
    /\ pending = [p \in Procs |-> [pc |-> "idle"]]
    /\ tx = [p \in Procs |-> IdleTx]
    /\ last = [op |-> "none"]
    /\ \E s \in 1..MaxStock, rows \in SeqsOf(ReturnInvoiceRows, RowCounts) :
        LET dbq == [id \in ItemIds |-> IF id \in ActiveIds THEN s ELSE 1]
            r == RetailInvoiceCreateView_post(dbq, <<>>, <<>>, <<>>, rows)
        IN  /\ r.outcome = "ok"
            /\ initial = dbq
            /\ quantity = r.quantity
            /\ movements = r.movements
            /\ invoices = r.invoices
            /\ lines = r.lines

Running == {p \in Procs : pending[p].pc # "idle"}

CanRequest(p) ==
    /\ pending[p].pc = "idle"
    /\ Len(returns) + Cardinality(Running) + 1 \in ReturnCounts
    /\ Found(1, "retail")

\* a return request that ended: the request, the rows it found when it checked,
\* the state before it wrote, and how it ended
ReturnRequested(op, req, r) ==
    /\ last' = [op |-> op, item |-> req.item, quantity |-> req.quantity,
                amount |-> req.amount, checked |-> req.checked,
                pre_quantity |-> quantity, pre_movements |-> movements,
                pre_returns |-> returns, pre_invoices |-> invoices,
                outcome |-> r.outcome, error |-> r.error]
    /\ quantity' = r.quantity
    /\ movements' = r.movements
    /\ invoices' = r.invoices
    /\ returns' = r.returns
    /\ UNCHANGED <<tx, initial, lines, payments, challans>>

Request(via, item, q, amount) ==
    [pc |-> "checked", via |-> via, item |-> item, quantity |-> q, amount |-> amount,
     checked |-> returns]

\* RetailReturnCreateView.post up to the quantity check
RetailReturnCheck(p) ==
    /\ CanRequest(p)
    /\ \E item \in 0..Len(lines), q \in 0..MaxQty, amount \in ReturnAmounts :
        LET error == ReturnCheck(lines, returns, 1, item, q, amount)
            req == Request("view", item, q, amount)
        IN  IF error = ""
            THEN /\ pending' = [pending EXCEPT ![p] = req]
                 /\ UNCHANGED <<quantity, movements, tx, initial, last, invoices, lines,
                                returns, payments, challans>>
            ELSE /\ ReturnRequested("retail_return", req,
                                    RetailReturnCreateView_post(quantity, movements, invoices,
                                        lines, returns, 1, item, q, amount))
                 /\ UNCHANGED pending

\* RetailReturnCreateView.post from the save to the commit
RetailReturnSave(p) ==
    /\ pending[p].pc = "checked"
    /\ pending[p].via = "view"
    /\ ReturnRequested("retail_return", pending[p],
                       RetailReturnCreateView_save(quantity, movements, invoices, lines,
                           returns, 1, pending[p].item, pending[p].quantity,
                           pending[p].amount))
    /\ pending' = [pending EXCEPT ![p] = [pc |-> "idle"]]

\* the admin's add form and RetailReturn.save up to its insert: the form and
\* save() both run RetailReturn.clean, one after the other; the amount is
\* read-only and keeps its default
AdminReturnClean(p) ==
    /\ CanRequest(p)
    /\ \E item \in 0..Len(lines), q \in 1..MaxQty :
        LET error == clean(lines, returns, item, q, 0)
            req == Request("admin", item, q, 0)
        IN  IF error = ""
            THEN /\ pending' = [pending EXCEPT ![p] = req]
                 /\ UNCHANGED <<quantity, movements, tx, initial, last, invoices, lines,
                                returns, payments, challans>>
            ELSE /\ ReturnRequested("admin_return", req,
                                    ReturnResponse(quantity, movements, invoices, returns,
                                                   "rejected", error))
                 /\ UNCHANGED pending

\* the admin's save_model from the insert of RetailReturn.save to the commit;
\* no stock moves
AdminReturnSave(p) ==
    /\ pending[p].pc = "checked"
    /\ pending[p].via = "admin"
    /\ LET saved == ReturnSaved(invoices, lines, returns, 1, pending[p].item,
                                pending[p].quantity, pending[p].amount)
       IN  ReturnRequested("admin_return", pending[p],
                           ReturnResponse(quantity, movements, saved.invoices,
                                          saved.returns, "ok", ""))
    /\ pending' = [pending EXCEPT ![p] = [pc |-> "idle"]]

NextReturns ==
    \E p \in Procs :
        \/ RetailReturnCheck(p)
        \/ RetailReturnSave(p)
        \/ AdminReturnClean(p)
        \/ AdminReturnSave(p)

SpecReturns == InitReturns /\ [][NextReturns]_vars

-----------------------------------------------------------------------------
(* Properties of the returns *)

\* the last request was a return through the view against an active line item
\* with an active inventory item, for no more than what was left to return
ReturnWithinRemaining ==
    /\ last.op = "retail_return"
    /\ LineFound(lines, 1, last.item)
    /\ lines[last.item].item \in ActiveIds
    /\ last.quantity >= 1
    /\ last.quantity <= lines[last.item].quantity
                          - ReturnedQuantity(last.pre_returns, last.item)

\* C12: a return through the retail view of q units of an active line item with
\* an active inventory item, q no more than the line item's quantity less the
\* units already returned (none for the first return), is accepted, raises the
\* stock of the item by exactly q, and is recorded by one stock movement of +q
\* that carries the invoice id.
C12_RetailReturnAccepted ==
    ReturnWithinRemaining =>
        LET id == lines[last.item].item
            new == NewMovements
        IN  /\ last.outcome = "ok"
            /\ quantity[id] = last.pre_quantity[id] + last.quantity
            /\ Len(new) = 1
            /\ new[1].item = id
            /\ new[1].quantity = last.quantity
            /\ new[1].invoice_id = 1

\* C13: for every line item, the quantities of its active returns never add up
\* to more than the quantity of the line item, whatever the order and the
\* overlap of the return requests against it.
C13_ReturnsWithinLineQuantity ==
    \A item \in 1..Len(lines) :
        ReturnedQuantity(returns, item) <= lines[item].quantity

\* C14: for every invoice, the amounts of its active returns never add up to
\* more than its base amount, the returns without a line item and with a manual
\* amount included.
C14_ReturnAmountsWithinBase ==
    \A inv \in 1..Len(invoices) :
        SumField(returns, ActiveReturnIds(returns, inv), "amount")
            <= invoices[inv].base_amount

\* C15: after every successful retail request that changes the line items or
\* the returns of an invoice (creation, update, an update without a valid row
\* included, return creation) the stored aggregates of the invoice are what a
\* recomputation gives: base_amount, total_gst and total_discount are the sums
\* over the active line items, and final_amount is
\* max(base + gst - discount - active returns, 0).
C15_RetailAggregatesCurrent ==
    (last.op \in {"retail_create", "retail_update", "retail_return"} /\ last.outcome = "ok") =>
        LET items == ActiveLineIds(lines, 1)
            base == SumBase(lines, items)
            gst == SumField(lines, items, "gst_amount")
            discount == SumField(lines, items, "discount_amount")
            returns_total == SumField(returns, ActiveReturnIds(returns, 1), "amount")
        IN  /\ invoices[1].base_amount = base
            /\ invoices[1].total_gst = gst
            /\ invoices[1].total_discount = discount
            /\ invoices[1].final_amount = Max(base + gst - discount - returns_total, 0)

\* C16: after a successful wholesale update the base_amount of the invoice is the
\* sum of the totals of all its active line items, the ones the update did not
\* change included.
C16_WholesaleBaseAmountCurrent ==
    (last.op = "wholesale_update" /\ last.outcome = "ok") =>
        invoices[1].base_amount = SumTotals(lines, ActiveLineIds(lines, 1))

-----------------------------------------------------------------------------
(* Wholesale payments and returns (billing/views.py PaymentCreateView,      *)
(* ReturnCreateView), one request at a time.  A wholesale Return names its  *)
(* invoice only.                                                            *)

PaymentRow(inv, amount) == [invoice |-> inv, amount |-> amount, is_active |-> TRUE]

\* what a payment or return request leaves behind, and how it ended
LedgerResponse(dbq, dbm, invs, rets, pays, outcome) ==
    [quantity |-> dbq, movements |-> dbm, invoices |-> invs, returns |-> rets,
     payments |-> pays, outcome |-> outcome]

\* Return.get_items_for_stock_restoration without ReturnItem rows: every active
\* line item with an inventory item gives back int(quantity * amount / base_amount)
\* units, and one unit where that is zero.  (For quantities up to 3 the Decimal
\* product truncates to the same integer as the exact quotient.)
RECURSIVE RestorationEntries(_, _, _, _)
RestorationEntries(ls, ids, amount, invoice_total) ==
    IF ids = <<>> THEN <<>>
    ELSE LET invoice_item == ls[ids[1]]
             truncated == (invoice_item.quantity * amount) \div invoice_total
             quantity_to_return == IF truncated = 0 /\ amount > 0 THEN 1 ELSE truncated
         IN  (IF invoice_item.item # 0 /\ quantity_to_return > 0
              THEN <<Entry(invoice_item.item, quantity_to_return)>> ELSE <<>>)
             \o RestorationEntries(ls, Tail(ids), amount, invoice_total)

get_items_for_stock_restoration(invs, ls, inv, amount) ==
    IF ActiveLineIds(ls, inv) = <<>> \/ invs[inv].base_amount <= 0 THEN <<>>
    ELSE RestorationEntries(ls, ActiveLineIds(ls, inv), amount, invs[inv].base_amount)

\* ReturnForm.clean, ReturnCreateView.post and Return.validate_return_amount all
\* refuse an amount that is not positive or above base_amount less the returns
ReturnRefused(invs, rets, inv, amount) ==
    amount <= 0 \/ amount > invs[inv].base_amount - Invoice_total_return(rets, inv)

\* ReturnCreateView.post: the return saved, the stock given back (a failure of
\* that is only a warning), and the invoice closed where its balance allows
ReturnCreateView_post(dbq, dbm, invs, ls, rets, pays, inv, amount) ==
    LET rets1 == Append(rets, ReturnRow(inv, 0, 0, amount))
        items_to_restore == get_items_for_stock_restoration(invs, ls, inv, amount)
        stock_result == add_stock_for_return(dbq, dbm, items_to_restore, "wholesale", inv)
        closed == check_and_close_invoice(invs, rets1, pays, inv)
    IN  IF ReturnRefused(invs, rets, inv, amount)
        THEN LedgerResponse(dbq, dbm, invs, rets, pays, "rejected")
        ELSE IF items_to_restore = <<>> \/ ~stock_result.success
        THEN LedgerResponse(dbq, dbm, closed, rets1, pays, "ok")
        ELSE LedgerResponse(stock_result.quantity, stock_result.movements, closed,
                            rets1, pays, "ok")

\* PaymentCreateView.post: PaymentForm refuses an amount above total_amount less
\* total_paid, the view one above that balance less the returns; the saved
\* payment's signal recalculates is_paid, then check_and_close_invoice runs
PaymentCreateView_post(dbq, dbm, invs, rets, pays, inv, amount) ==
    LET pending_balance == Max(Invoice_total_amount(invs, rets, inv)
                               - Invoice_total_paid(pays, inv), 0)
        current_balance == Max(Invoice_total_amount(invs, rets, inv)
                               - Invoice_total_paid(pays, inv)
                               - Invoice_total_return(rets, inv), 0)
        pays1 == Append(pays, PaymentRow(inv, amount))
        payment_changed == recalc_invoice_payment_status(invs, rets, pays1, inv)
    IN  IF amount <= 0 \/ amount > pending_balance
        THEN LedgerResponse(dbq, dbm, invs, rets, pays, "rejected")
        ELSE IF amount > current_balance
        THEN LedgerResponse(dbq, dbm, invs, rets, pays, "error")
        ELSE LedgerResponse(dbq, dbm, check_and_close_invoice(payment_changed, rets, pays1, inv),
                            rets, pays1, "ok")

-----------------------------------------------------------------------------
(* SpecPayments: one wholesale invoice, its payments, its returns and at    *)
(* most one update of its line items, one request at a time.                *)

\* the amounts of the payments and of the returns
PaymentAmounts == {25, 50}

WholesaleReturnAmounts == {25, 50}

\* the number of payment rows and of return rows after a request
PaymentCounts == 1..2

WholesaleReturnCounts == 1..2

InitPayments ==
    /\ challans = <<>>
    /\ returns = <<>>
    /\ payments = <<>>
    /\ pending = [p \in Procs |-> [pc |-> "idle"]]
    /\ tx = [p \in Procs |-> IdleTx]
    /\ last = [op |-> "none", updated |-> FALSE]
    /\ \E s \in 1..MaxStock, rows \in SeqsOf(WholesaleRows, RowCounts) :
        LET dbq == [id \in ItemIds |-> IF id \in ActiveIds THEN s ELSE 1]
            r == InvoiceCreateView_post(dbq, <<>>, <<>>, <<>>, rows, FALSE, 0)
        IN  /\ r.outcome = "ok"
            /\ initial = dbq
            /\ quantity = r.quantity
            /\ movements = r.movements
            /\ invoices = r.invoices
            /\ lines = r.lines

\* a request that ended: the request, how it ended, and whether the line items
\* have been updated so far
LedgerRequested(op, amount, r) ==
    /\ last' = [op |-> op, amount |-> amount, outcome |-> r.outcome,
                updated |-> last.updated \/ op = "wholesale_update"]
    /\ quantity' = r.quantity
    /\ movements' = r.movements
    /\ invoices' = r.invoices
    /\ returns' = r.returns
    /\ payments' = r.payments
    /\ UNCHANGED <<tx, initial, pending, challans>>

PaymentCreate ==
    /\ Found(1, "wholesale")
    /\ Len(payments) + 1 \in PaymentCounts
    /\ \E amount \in PaymentAmounts :
        LedgerRequested("payment", amount,
                        PaymentCreateView_post(quantity, movements, invoices, returns,
                                               payments, 1, amount))
    /\ UNCHANGED lines

ReturnCreate ==
    /\ Found(1, "wholesale")
    /\ Len(returns) + 1 \in WholesaleReturnCounts
    /\ \E amount \in WholesaleReturnAmounts :
        LedgerRequested("wholesale_return", amount,
                        ReturnCreateView_post(quantity, movements, invoices, lines, returns,
                                              payments, 1, amount))
    /\ UNCHANGED lines

LineItemsUpdate ==
    /\ Found(1, "wholesale")
    /\ ~last.updated
    /\ \E edits \in [1..Len(ActiveLineIds(lines, 1)) -> {-1} \cup 1..MaxQty],
          new_rows \in SeqsOf(WholesaleNewRows, NewRowCounts) :
        LET r == InvoiceUpdateView_post(quantity, movements, invoices, lines, 1,
                                        edits, new_rows)
        IN  /\ LedgerRequested("wholesale_update", 0,
                               LedgerResponse(r.quantity, r.movements, r.invoices,
                                              returns, payments, r.outcome))
            /\ lines' = r.lines

NextPayments == PaymentCreate \/ ReturnCreate \/ LineItemsUpdate

SpecPayments == InitPayments /\ [][NextPayments]_vars

\* C17: after each line-item change, payment or return through the views, the
\* wholesale invoice is marked paid exactly when what was paid on it is at least
\* its total amount (the base amount less the active returns, not below zero).
C17_PaidIffCovered ==
    (last.op \in {"wholesale_update", "payment", "wholesale_return"} /\ last.outcome = "ok") =>
        (invoices[1].is_paid <=>
            Invoice_total_paid(payments, 1) >= Invoice_total_amount(invoices, returns, 1))

-----------------------------------------------------------------------------
(* SpecAdjust: an invoice deduction by worker 1 (InventoryManager, under    *)
(* row locks) and a manual stock adjustment by worker 2 (items/views.py     *)
(* StockAdjustmentView.form_valid, items/models.py Item.add_stock and      *)
(* Item.deduct_stock).  The adjustment reads the Item row with a plain      *)
(* query and writes item.quantity from the object it read.                  *)

\* the quantities of an adjustment
AdjustQuantities == 1..MaxQty

\* get_object_or_404(Item, pk): the row as committed, no lock taken
AdjustRead ==
    /\ pending[2].pc = "idle"
    /\ \E id \in SharedIds, adjustment_type \in {"add", "remove"}, q \in AdjustQuantities :
        pending' = [pending EXCEPT ![2] =
                       [pc |-> "read", item |-> id, adjustment_type |-> adjustment_type,
                        quantity |-> q, stock |-> quantity[id]]]
    /\ UNCHANGED <<quantity, movements, tx, initial, last, invoices, lines, returns, payments, challans>>

\* the signed change of an adjustment
AdjustDelta(a) == IF a.adjustment_type = "add" THEN a.quantity ELSE -a.quantity

\* Item.deduct_stock refuses more than the quantity of the object it was called on
AdjustRefused(a) == a.adjustment_type = "remove" /\ a.stock < a.quantity

\* Item.add_stock / Item.deduct_stock: self.quantity +=/-= quantity on the object
\* that was read, save(update_fields=['quantity', ...]), which waits for a row
\* lock held by a transaction, and the StockMovement row
AdjustWrite ==
    /\ pending[2].pc = "read"
    /\ LET a == pending[2]
       IN  IF AdjustRefused(a)
           THEN /\ pending' = [pending EXCEPT ![2] =
                                  [a EXCEPT !.pc = "done"] @@ [success |-> FALSE]]
                /\ UNCHANGED <<quantity, movements>>
           ELSE /\ LockFree(2, a.item)
                /\ quantity' = [quantity EXCEPT ![a.item] = a.stock + AdjustDelta(a)]
                /\ movements' = Append(movements,
                                   [item |-> a.item, quantity |-> AdjustDelta(a),
                                    movement_type |-> IF a.adjustment_type = "add"
                                                      THEN "adjustment" ELSE "adjustment_sale",
                                    invoice_id |-> 0, invoice_type |-> ""])
                /\ pending' = [pending EXCEPT ![2] =
                                  [a EXCEPT !.pc = "done"] @@ [success |-> TRUE]]
    /\ UNCHANGED <<tx, initial, last, invoices, lines, returns, payments, challans>>

NextAdjust ==
    \/ BeginDeduct(1)
    \/ Step(1)
    \/ Commit(1)
    \/ AdjustRead
    \/ AdjustWrite

SpecAdjust == InitLedger /\ [][NextAdjust]_vars

\* the quantity of item id in a list of entries
RECURSIVE BatchQuantity(_, _)
BatchQuantity(items, id) ==
    IF items = <<>> THEN 0
    ELSE (IF items[1].item_id = id THEN items[1].quantity ELSE 0)
         + BatchQuantity(Tail(items), id)

\* C18: a manual stock adjustment that runs concurrently with an invoice
\* deduction on the same item loses neither change: once both have ended, the
\* quantity of every item is its initial quantity plus the changes of the
\* operations that reported success.
C18_NoLostAdjustment ==
    (tx[1].pc = "done" /\ pending[2].pc = "done") =>
        \A id \in ItemIds :
            quantity[id] = initial[id]
                - (IF tx[1].result.success
                   THEN BatchQuantity(tx[1].input, id) ELSE 0)
                + (IF pending[2].success /\ pending[2].item = id
                   THEN AdjustDelta(pending[2]) ELSE 0)

-----------------------------------------------------------------------------
(* SpecNumbers: two RetailInvoice creations, each in its own transaction,   *)
(* on one of the database vendors (retailapp/models.py RetailInvoice.save   *)
(* and _generate_next_invoice_number).  An invoice row carries the sequence *)
(* part of its invoice_number, which stays below 1000.  The vendor is kept  *)
(* in `last`.                                                               *)

Vendors == {"postgresql", "mysql", "sqlite"}

\* lock_key = abs(hash(today)) % 2147483647: the hash of a string is salted per
\* interpreter, so two server processes agree on the key only if they share
\* the salt
LockKeys == {1, 2}

\* the invoice rows before the two creations, soft-deleted ones included
NumberedRow(seq, active) ==
    [InvoiceRow("retail", FALSE, 0) EXCEPT !.is_active = active] @@ [invoice_number |-> seq]

ExistingInvoices ==
    {<<>>} \cup {<<NumberedRow(1, active)>> : active \in BOOLEAN}

InitNumbers ==
    /\ challans = <<>>
    /\ quantity = [id \in ItemIds |-> 1]
    /\ initial = quantity
    /\ movements = <<>>
    /\ tx = [p \in Procs |-> IdleTx]
    /\ lines = <<>>
    /\ returns = <<>>
    /\ payments = <<>>
    /\ pending = [p \in Procs |-> [pc |-> "idle"]]
    /\ invoices \in ExistingInvoices
    /\ \E db_vendor \in Vendors : last = [op |-> "none", db_vendor |-> db_vendor]

NumbersUnchanged == UNCHANGED <<quantity, movements, tx, initial, last, lines, returns, payments, challans>>

\* the lock a worker holds: the advisory lock of its key until its transaction
\* ends (postgresql), the named lock until RELEASE_LOCK (mysql), none (sqlite)
LockHeld(p) == pending[p].pc \in {"locked", "numbered"} /\ pending[p].lock_key # 0

\* a request enters RetailInvoice.save in a server process with lock key k
BeginSave(p) ==
    /\ pending[p].pc = "idle"
    /\ \E k \in LockKeys :
        pending' = [pending EXCEPT ![p] = [pc |-> "begun", process_key |-> k,
                                           lock_key |-> 0, seq |-> 0]]
    /\ UNCHANGED invoices
    /\ NumbersUnchanged

\* pg_advisory_xact_lock(lock_key) / GET_LOCK(lock_name, 10): waits while another
\* worker holds the same lock; the name of the mysql lock is the same everywhere
AcquireLock(p) ==
    /\ pending[p].pc = "begun"
    /\ LET k == IF last.db_vendor = "postgresql" THEN pending[p].process_key
                ELSE IF last.db_vendor = "mysql" THEN 1
                ELSE 0
       IN  /\ \A q \in Procs \ {p} : ~(LockHeld(q) /\ pending[q].lock_key = k)
           /\ pending' = [pending EXCEPT ![p].pc = "locked", ![p].lock_key = k]
    /\ UNCHANGED invoices
    /\ NumbersUnchanged

\* the highest committed invoice_number of the day, plus one
NextSeq(invs) ==
    IF invs = <<>> THEN 1
    ELSE 1 + (CHOOSE n \in {invs[k].invoice_number : k \in 1..Len(invs)} :
                 \A k \in 1..Len(invs) : invs[k].invoice_number <= n)

\* SELECT invoice_number ... ORDER BY invoice_number DESC LIMIT 1 on the committed
\* rows, and RELEASE_LOCK on mysql
SelectLast(p) ==
    /\ pending[p].pc = "locked"
    /\ pending' = [pending EXCEPT ![p].pc = "numbered",
                                  ![p].seq = NextSeq(invoices),
                                  ![p].lock_key = IF last.db_vendor = "mysql" THEN 0 ELSE @]
    /\ UNCHANGED invoices
    /\ NumbersUnchanged

\* full_clean (validate_unique), the insert and the commit: a number that a
\* committed row already has makes the creation fail
InsertInvoice(p) ==
    /\ pending[p].pc = "numbered"
    /\ IF \E k \in 1..Len(invoices) : invoices[k].invoice_number = pending[p].seq
       THEN /\ pending' = [pending EXCEPT ![p].pc = "failed", ![p].lock_key = 0]
            /\ UNCHANGED invoices
       ELSE /\ pending' = [pending EXCEPT ![p].pc = "saved", ![p].lock_key = 0]
            /\ invoices' = Append(invoices, NumberedRow(pending[p].seq, TRUE))
    /\ NumbersUnchanged

NextNumbers ==
    \E p \in Procs :
        \/ BeginSave(p)
        \/ AcquireLock(p)
        \/ SelectLast(p)
        \/ InsertInvoice(p)

SpecNumbers == InitNumbers /\ [][NextNumbers]_vars

\* C19: on every database vendor and in every interleaving of the creations, no
\* two creations get the same invoice number from _generate_next_invoice_number,
\* and every creation is saved, with a number that no other invoice row has,
\* soft-deleted rows included.
C19_InvoiceNumbersUnique ==
    /\ \A p, q \in Procs :
          (p # q /\ pending[p].pc = "numbered" /\ pending[q].pc = "numbered")
              => pending[p].seq # pending[q].seq
    /\ \A p \in Procs : pending[p].pc # "failed"
    /\ \A i, j \in 1..Len(invoices) :
          i # j => invoices[i].invoice_number # invoices[j].invoice_number

-----------------------------------------------------------------------------
(* SpecDelete: the deletion of an invoice whose line items may name an Item *)
(* row that was soft-deleted after the invoice was made.                    *)

\* the line items of the invoice to delete: no item (0), an active item, the
\* inactive item or the item soft-deleted since
DeleteLineRows == {Row(id, q, rate) : id \in 0..5, q \in 1..MaxQty, rate \in Rates}

DeleteLineCounts == 1..2

InvoiceKinds == {"wholesale", "retail"}

\* the line items the creation of an invoice makes of its rows
LinesOfRows(kind, inv, rows) ==
    IF kind = "wholesale" THEN WholesaleLines(inv, rows) ELSE RetailLines(inv, rows)

InitDelete ==
    /\ challans = <<>>
    /\ returns = <<>>
    /\ payments = <<>>
    /\ pending = [p \in Procs |-> [pc |-> "idle"]]
    /\ tx = [p \in Procs |-> IdleTx]
    /\ last = [op |-> "none"]
    /\ movements = <<>>
    /\ quantity \in {[id \in ItemIds |-> IF id \in ActiveIds THEN s ELSE 1] :
                       s \in 0..MaxStock}
    /\ initial = quantity
    /\ \E kind \in InvoiceKinds, rows \in SeqsOf(DeleteLineRows, DeleteLineCounts) :
        LET ls == LinesOfRows(kind, 1, rows)
            invs == <<InvoiceRow(kind, FALSE, 0)>>
        IN  /\ lines = ls
            /\ invoices = IF kind = "retail"
                          THEN recalculate_totals(invs, ls, <<>>, 1)
                          ELSE recalculate_base_amount(invs, ls, 1)

NextDelete == WholesaleDelete \/ RetailDelete

SpecDelete == InitDelete /\ [][NextDelete]_vars

\* the batch the delete view of the last request handed to the restoration
DeletedBatch ==
    TrackedEntries(RowsOfLines(last.pre_lines, ActiveLineIds(last.pre_lines, 1)))

\* the entries of a batch whose item is missing or soft-deleted
FailedEntries(items) == SelectSeq(items, LAMBDA e : ~RowFound(e.item_id))

\* what restore_stock_for_invoice_deletion returned to the last request
DeletedResult ==
    restore_stock_for_invoice_deletion(last.pre_quantity, last.pre_movements,
                                       DeletedBatch, last.pre_invoices[1].kind, 1)

\* C20: deleting an invoice is best-effort on inventory: when the batch holds
\* an item that no longer exists or is soft-deleted,
\* restore_stock_for_invoice_deletion still adds back the full quantity of
\* every other item of the batch, lists the failure in errors and returns
\* success = true, and the delete view still marks the invoice inactive.
C20_DeleteBestEffort ==
    (/\ last.op \in {"wholesale_delete", "retail_delete"}
     /\ FailedEntries(DeletedBatch) # <<>>)
    => /\ DeletedResult.success
       /\ Len(DeletedResult.errors) = Len(FailedEntries(DeletedBatch))
       /\ \A id \in ItemIds :
            quantity[id] = last.pre_quantity[id]
                           + (IF RowFound(id) THEN BatchQuantity(DeletedBatch, id) ELSE 0)
       /\ quantity = DeletedResult.quantity
       /\ last.outcome = "ok"
       /\ ~invoices[1].is_active

\* a retail invoice with a line on the soft-deleted item 5 and a line of two
\* units of item 1 is deleted: item 1 gets its two units back
C20_Witness ==
    /\ last.op = "retail_delete"
    /\ DeletedBatch = <<Entry(5, 1), Entry(1, 2)>>
    /\ quantity[1] = last.pre_quantity[1] + 2
    /\ quantity[5] = last.pre_quantity[5]
    /\ DeletedResult.success
    /\ DeletedResult.errors # <<>>
    /\ ~invoices[1].is_active

\* RetailInvoiceItem.save: base_amount = quantity x rate, gst_amount and
\* discount_amount its percentages, each quantized to the paisa (half to even)
RetailLineItem(inv, id, q, rate, gst_pct, discount_pct) ==
    LineItem(inv, id, q, rate, RoundHalfEven(q * rate * gst_pct, 100),
             RoundHalfEven(q * rate * discount_pct, 100))

\* the retail line items of rows that all carry the same percentages
RECURSIVE RetailLinesAt(_, _, _, _)
RetailLinesAt(inv, rows, gst_pct, discount_pct) ==
    IF rows = <<>> THEN <<>>
    ELSE <<RetailLineItem(inv, rows[1].item_id, rows[1].quantity, rows[1].rate,
                          gst_pct, discount_pct)>>
         \o RetailLinesAt(inv, Tail(rows), gst_pct, discount_pct)

-----------------------------------------------------------------------------
(* SpecRecalc: the totals recomputation of one invoice, run up to twice in  *)
(* a row (RetailInvoice.recalculate_totals, Invoice.recalculate_base_amount)*)
(* on line items, returns and payments that do not change in between.  The  *)
(* stored aggregates are those last computed, over the line items of then.  *)

RecalcRows == {Row(id, q, rate) : id \in 0..1, q \in 1..MaxQty, rate \in Rates}

RecalcRowCounts == 0..2

RecalcReturns == {<<>>, <<ReturnRow(1, 0, 1, 50)>>, <<ReturnRow(1, 0, 1, 200)>>}

RecalcPayments == {<<>>, <<PaymentRow(1, 50)>>}

\* RetailInvoice.payment_mode of an invoice: not paid, or paid in cash
RecalcModes == {"UNPAID", "CASH"}

RecalcRuns == 1..2

\* gst_percent and discount_percent of the retail line items
RecalcPercents == {<<0, 0>>, <<12, 10>>}

RecalcLines(kind, rows, pct) ==
    IF kind = "wholesale" THEN WholesaleLines(1, rows)
    ELSE RetailLinesAt(1, rows, pct[1], pct[2])

\* the invoice row as the last recomputation over the line items ls left it
Recomputed(kind, invs, ls, rets) ==
    IF kind = "retail" THEN recalculate_totals(invs, ls, rets, 1)
    ELSE recalculate_base_amount(invs, ls, 1)

InitRecalc ==
    /\ challans = <<>>
    /\ pending = [p \in Procs |-> [pc |-> "idle"]]
    /\ tx = [p \in Procs |-> IdleTx]
    /\ last = [op |-> "none"]
    /\ movements = <<>>
    /\ quantity = [id \in ItemIds |-> 1]
    /\ initial = quantity
    /\ payments \in RecalcPayments
    /\ returns \in RecalcReturns
    /\ \E kind \in InvoiceKinds, mode \in RecalcModes, pct \in RecalcPercents,
          before \in SeqsOf(RecalcRows, RecalcRowCounts),
          rows \in SeqsOf(RecalcRows, RecalcRowCounts) :
        /\ kind = "retail" => payments = <<>>
        /\ kind = "wholesale" => mode = "UNPAID" /\ pct = <<0, 0>>
        /\ lines = RecalcLines(kind, rows, pct)
        /\ invoices = Recomputed(kind,
                                 <<[InvoiceRow(kind, FALSE, 0) EXCEPT !.payment_mode = mode]>>,
                                 RecalcLines(kind, before, pct), <<>>)

RunsSoFar == IF last.op = "none" THEN 0 ELSE last.runs

Recalculated(op, invs) ==
    /\ RunsSoFar + 1 \in RecalcRuns
    /\ last' = [op |-> op, runs |-> RunsSoFar + 1, pre_invoices |-> invoices,
                first |-> IF last.op = "none" THEN invoices ELSE last.first]
    /\ invoices' = invs
    /\ UNCHANGED <<quantity, movements, tx, initial, lines, others>>

RecalculateTotals ==
    /\ Found(1, "retail")
    /\ Recalculated("recalculate_totals", recalculate_totals(invoices, lines, returns, 1))

RecalculateBaseAmount ==
    /\ Found(1, "wholesale")
    /\ Recalculated("recalculate_base_amount", recalculate_base_amount(invoices, lines, 1))

NextRecalc == RecalculateTotals \/ RecalculateBaseAmount

SpecRecalc == InitRecalc /\ [][NextRecalc]_vars

\* the aggregate fields a recomputation writes
Aggregates(i) ==
    <<i.base_amount, i.total_gst, i.total_discount, i.final_amount, i.payment_mode,
      i.is_paid>>

\* C21: totals recomputation is idempotent: after a second run of
\* recalculate_totals (or recalculate_base_amount) with no change to line
\* items, payments or returns in between, base_amount, total_gst,
\* total_discount, final_amount, payment_mode (base_amount and is_paid for
\* wholesale) are what they were after the first run.
C21_RecalculateIdempotent ==
    (last.op \in {"recalculate_totals", "recalculate_base_amount"} /\ last.runs = 2)
    => Aggregates(invoices[1]) = Aggregates(last.pre_invoices[1])

\* a retail invoice with stale totals and a return that covers it: the first
\* run settles it, the second run leaves it settled
C21_Witness ==
    /\ last.op = "recalculate_totals" /\ last.runs = 2
    /\ returns # <<>>
    /\ last.first[1].payment_mode = "UNPAID"
    /\ last.first[1].final_amount # last.pre_invoices[1].final_amount
    /\ invoices[1].payment_mode = "OTHER"
    /\ invoices[1].final_amount = 0

\* the payment state of an invoice row
PaymentState(i) == <<i.payment_mode, i.transaction_reference, i.payment_date>>

\* C25: recalculate_totals changes the payment state in exactly one case: an
\* UNPAID invoice whose recomputed final amount is <= 0 gets payment_mode
\* OTHER and transaction_reference 'SETTLED_BY_RETURN'; in every other case
\* payment_mode, transaction_reference and payment_date are left unchanged.
C25_SettlesOnlyUnpaidZero ==
    last.op = "recalculate_totals"
    => LET pre == last.pre_invoices[1]
           post == invoices[1]
       IN  IF pre.payment_mode = "UNPAID" /\ post.final_amount <= 0
           THEN /\ post.payment_mode = "OTHER"
                /\ post.transaction_reference = "SETTLED_BY_RETURN"
           ELSE PaymentState(post) = PaymentState(pre)

\* an unpaid invoice whose return covers its line items is settled by the
\* first run
C25_Witness ==
    /\ last.op = "recalculate_totals" /\ last.runs = 1
    /\ returns # <<>> /\ lines # <<>>
    /\ last.pre_invoices[1].payment_mode = "UNPAID"
    /\ last.pre_invoices[1].final_amount > 0
    /\ invoices[1].final_amount = 0
    /\ PaymentState(invoices[1]) = <<"OTHER", "SETTLED_BY_RETURN", "now">>

-----------------------------------------------------------------------------
(* SpecInsert: the insert loop of InvoiceCreateView.post (billing/views.py)  *)
(* for one new wholesale invoice, while other requests commit invoice rows. *)
(* An invoice_number is <<sequence part, digits of the suffix, suffix>>.    *)

max_retries == 10

\* the microseconds of timezone.now() that end an invoice number
Stamps == {0, 1}

\* the IntegrityErrors an INSERT into billing_invoice can end in: the unique
\* index of invoice_number, the primary key (an id sequence behind the rows),
\* a foreign key (the party row removed meanwhile)
IntegrityErrors == {"invoice_number", "pkey", "foreign_key"}

\* str(ie).lower() on PostgreSQL, as far as the handler looks at it
ErrorMessage(kind) ==
    CASE kind = "invoice_number" ->
           {"unique constraint", "invoice_number"}
      [] kind = "pkey" -> {"unique constraint"}
      [] OTHER -> {"foreign key constraint"}

\* `'invoice_number' in error_msg or 'unique constraint' in error_msg`
IsNumberCollision(error_msg) ==
    "invoice_number" \in error_msg \/ "unique constraint" \in error_msg

WholesaleRow(number, active) ==
    [InvoiceRow("wholesale", FALSE, 0) EXCEPT !.is_active = active]
    @@ [invoice_number |-> number]

\* Invoice.objects.filter(invoice_number__startswith=prefix).order_by("-id").first()
\* on the active rows, and its sequence part plus one
WholesaleNextNum(invs) ==
    LET active == {k \in 1..Len(invs) : invs[k].is_active}
    IN  IF active = {} THEN 1
        ELSE invs[CHOOSE k \in active : \A j \in active : j <= k].invoice_number[1] + 1

NumberTaken(invs, number) == \E k \in 1..Len(invs) : invs[k].invoice_number = number

InitInsert ==
    /\ challans = <<>>
    /\ quantity = [id \in ItemIds |-> 1]
    /\ initial = quantity
    /\ movements = <<>>
    /\ tx = [p \in Procs |-> IdleTx]
    /\ lines = <<>>
    /\ returns = <<>>
    /\ payments = <<>>
    /\ last = [op |-> "none"]
    /\ pending = [p \in Procs |-> [pc |-> "idle"]]
    /\ invoices \in {<<>>} \cup {<<WholesaleRow(<<1, 4, s>>, a)>> : s \in Stamps, a \in BOOLEAN}

InsertUnchanged == UNCHANGED <<quantity, movements, tx, initial, last, lines, returns, payments, challans>>

\* invoice.invoice_number = self.generate_invoice_number(): suffix of 4 digits.
\* collisions counts the number collisions so far; retried_other tells whether
\* an IntegrityError of another kind was followed by a retry
BeginInsert ==
    /\ pending[1].pc = "idle"
    /\ \E s \in Stamps :
        pending' = [pending EXCEPT ![1] =
            [pc |-> "loop", attempt |-> 0, collisions |-> 0, retried_other |-> FALSE,
             error |-> "", row |-> 0, number |-> <<WholesaleNextNum(invoices), 4, s>>]]
    /\ UNCHANGED invoices
    /\ InsertUnchanged

\* another request commits an invoice with the number this one is about to try
OtherInsert ==
    /\ pending[1].pc = "loop"
    /\ ~NumberTaken(invoices, pending[1].number)
    /\ invoices' = Append(invoices, WholesaleRow(pending[1].number, TRUE))
    /\ UNCHANGED pending
    /\ InsertUnchanged

\* one iteration of `while attempt < max_retries and not saved`
TryInsert ==
    /\ pending[1].pc = "loop"
    /\ pending[1].attempt < max_retries
    /\ LET w == pending[1]
           tried == [w EXCEPT !.attempt = w.attempt + 1]
       IN  \/ /\ ~NumberTaken(invoices, w.number)
              /\ invoices' = Append(invoices, WholesaleRow(w.number, TRUE))
              /\ pending' = [pending EXCEPT ![1] =
                    [tried EXCEPT !.pc = "saved", !.row = Len(invoices) + 1]]
           \/ \E ie \in IntegrityErrors :
              /\ ie = "invoice_number" <=> NumberTaken(invoices, w.number)
              /\ UNCHANGED invoices
              /\ IF IsNumberCollision(ErrorMessage(ie))
                 THEN \E s \in Stamps :
                        pending' = [pending EXCEPT ![1] =
                            [tried EXCEPT
                                !.error = ie,
                                !.collisions = IF ie = "invoice_number" THEN @ + 1 ELSE @,
                                !.retried_other = @ \/ ie # "invoice_number",
                                !.number = <<WholesaleNextNum(invoices), 6, s>>]]
                 ELSE pending' = [pending EXCEPT ![1] =
                        [tried EXCEPT !.error = ie, !.pc = "raised"]]
    /\ InsertUnchanged

\* `if not saved: raise IntegrityError("Failed to save invoice after maximum retries")`
GiveUp ==
    /\ pending[1].pc = "loop"
    /\ pending[1].attempt = max_retries
    /\ pending' = [pending EXCEPT ![1].pc = "gave_up"]
    /\ UNCHANGED invoices
    /\ InsertUnchanged

NextInsert == BeginInsert \/ OtherInsert \/ TryInsert \/ GiveUp

SpecInsert == InitInsert /\ [][NextInsert]_vars

\* the loop is bounded and ends with the invoice saved under a number of its
\* own, or with no invoice saved
InsertLoopBounded ==
    pending[1].pc # "idle"
    => /\ pending[1].attempt <= max_retries
       /\ pending[1].pc = "saved" =>
            \A k \in 1..Len(invoices) :
                k # pending[1].row
                    => invoices[k].invoice_number # invoices[pending[1].row].invoice_number
       /\ pending[1].pc \in {"gave_up", "raised"} => pending[1].row = 0
       /\ pending[1].pc = "gave_up" => pending[1].attempt = max_retries

-----------------------------------------------------------------------------
(* SpecProportional: one wholesale invoice, one return against it that      *)
(* names no line items (billing/views.py ReturnCreateView.post,             *)
(* billing/models.py Return.get_items_for_stock_restoration), and the       *)
(* deletion of the invoice (billing/views.py invoice_delete).               *)

\* stock levels that leave room for the two deductions of the creation
ProportionalStocks == 1..(2 * MaxQty)

ProportionalAmounts == {25, 50, 100}

InitProportional ==
    /\ challans = <<>>
    /\ returns = <<>>
    /\ payments = <<>>
    /\ pending = [p \in Procs |-> [pc |-> "idle"]]
    /\ tx = [p \in Procs |-> IdleTx]
    /\ last = [op |-> "none"]
    /\ \E s \in ProportionalStocks, rows \in SeqsOf(WholesaleRows, RowCounts) :
        LET dbq == [id \in ItemIds |-> IF id \in ActiveIds THEN s ELSE 1]
            r == InvoiceCreateView_post(dbq, <<>>, <<>>, <<>>, rows, FALSE, 0)
        IN  /\ r.outcome = "ok"
            /\ initial = dbq
            /\ quantity = r.quantity
            /\ movements = r.movements
            /\ invoices = r.invoices
            /\ lines = r.lines

ProportionalReturn ==
    /\ last.op = "none"
    /\ Found(1, "wholesale")
    /\ \E amount \in ProportionalAmounts :
        LET r == ReturnCreateView_post(quantity, movements, invoices, lines, returns,
                                       payments, 1, amount)
        IN  /\ last' = [op |-> "wholesale_return", amount |-> amount,
                        pre_quantity |-> quantity, pre_movements |-> movements,
                        pre_invoices |-> invoices, outcome |-> r.outcome]
            /\ quantity' = r.quantity
            /\ movements' = r.movements
            /\ invoices' = r.invoices
            /\ returns' = r.returns
            /\ payments' = r.payments
    /\ UNCHANGED <<tx, initial, lines, pending, challans>>

\* invoice_delete of the invoice, after the return or without one
ProportionalDelete ==
    /\ Found(1, "wholesale")
    /\ LET r == invoice_delete(quantity, movements, invoices, lines, 1)
       IN  /\ last' = [op |-> "wholesale_delete", amount |-> 0,
                       pre_quantity |-> quantity, pre_movements |-> movements,
                       pre_invoices |-> invoices, outcome |-> r.outcome]
           /\ quantity' = r.quantity
           /\ movements' = r.movements
           /\ invoices' = r.invoices
    /\ UNCHANGED <<tx, initial, lines, others>>

NextProportional == ProportionalReturn \/ ProportionalDelete

SpecProportional == InitProportional /\ [][NextProportional]_vars

\* round(quantity * amount / base_amount), raised to 1 when it rounds to 0 and
\* the amount is positive
RoundedShare(q, amount, base_amount) ==
    LET rounded == RoundHalfEven(q * amount, base_amount)
    IN  IF rounded = 0 /\ amount > 0 THEN 1 ELSE rounded

\* the rounded shares of the tracked line items ids that are of item id
RECURSIVE RoundedShares(_, _, _, _, _)
RoundedShares(ls, ids, id, amount, base_amount) ==
    IF ids = <<>> THEN 0
    ELSE (IF ls[ids[1]].item = id
          THEN RoundedShare(ls[ids[1]].quantity, amount, base_amount) ELSE 0)
         + RoundedShares(ls, Tail(ids), id, amount, base_amount)

\* C23: for a wholesale return that is not linked to specific line items, the
\* quantity restored for each tracked active line item is
\* round(line quantity x return amount / invoice base amount), raised to 1 when
\* that rounds to 0 and the return amount is positive.
C23_RestoredIsRoundedShare ==
    (last.op = "wholesale_return" /\ last.outcome = "ok"
     /\ last.pre_invoices[1].base_amount > 0)
    => \A id \in ActiveIds :
         quantity[id] - last.pre_quantity[id]
            = RoundedShares(lines, ActiveLineIds(lines, 1), id, last.amount,
                            last.pre_invoices[1].base_amount)

-----------------------------------------------------------------------------
(* SpecAmount: RetailReturn.save (retailapp/models.py) on one retail invoice *)
(* with one line item, whose total need not be a multiple of its quantity.  *)

LineQuantities == 1..5

\* Rs 0.00, Rs 0.50 and Rs 800.00
LineRates == {0, 50, 80000}

\* gst_percent and discount_percent of the line item
LinePercents == {<<0, 0>>, <<5, 0>>, <<12, 0>>, <<12, 10>>}

\* the return rows after a save
SavedReturnCounts == 1..2

InitAmount ==
    /\ challans = <<>>
    /\ returns = <<>>
    /\ payments = <<>>
    /\ pending = [p \in Procs |-> [pc |-> "idle"]]
    /\ tx = [p \in Procs |-> IdleTx]
    /\ last = [op |-> "none"]
    /\ movements = <<>>
    /\ quantity = [id \in ItemIds |-> 1]
    /\ initial = quantity
    /\ \E q \in LineQuantities, rate \in LineRates, pct \in LinePercents :
        /\ lines = <<RetailLineItem(1, 1, q, rate, pct[1], pct[2])>>
        /\ invoices = recalculate_totals(<<InvoiceRow("retail", FALSE, 0)>>, lines, <<>>, 1)

\* RetailReturn(invoice, item, quantity, amount).save(): full_clean, the amount
\* calculated from the line item, the insert and its post_save signal
ReturnSave ==
    /\ Found(1, "retail")
    /\ Len(returns) + 1 \in SavedReturnCounts
    /\ \E item \in 0..1, q \in LineQuantities, amount \in ReturnAmounts :
        LET error == clean(lines, returns, item, q, amount)
            saved == ReturnSaved(invoices, lines, returns, 1, item, q, amount)
        IN  /\ last' = [op |-> "return_save", item |-> item, quantity |-> q,
                        amount |-> amount,
                        outcome |-> IF error = "" THEN "ok" ELSE "invalid"]
            /\ returns' = IF error = "" THEN saved.returns ELSE returns
            /\ invoices' = IF error = "" THEN saved.invoices ELSE invoices
    /\ UNCHANGED <<quantity, movements, tx, initial, lines, payments, pending, challans>>

NextAmount == ReturnSave

SpecAmount == InitAmount /\ [][NextAmount]_vars

\* P is total / quantity rounded to the paisa
RoundedToPaisa(P, total, q) ==
    2 * (IF P * q >= total THEN P * q - total ELSE total - P * q) <= q

\* C24: when a retail return linked to a line item with positive quantity and
\* non-zero total is saved, its amount is (line total / line quantity, rounded
\* to 2 decimals) x return quantity, whatever amount was supplied.
C24_LinkedReturnAmount ==
    (/\ last.op = "return_save" /\ last.outcome = "ok" /\ last.item # 0
     /\ lines[last.item].quantity > 0 /\ lines[last.item].total # 0)
    => LET line == lines[last.item]
           unit == line.total \div line.quantity
       IN  \E P \in unit..(unit + 1) :
              /\ RoundedToPaisa(P, line.total, line.quantity)
              /\ returns[Len(returns)].amount = P * last.quantity

\* the example: a line of 5 units with total Rs 4480.00, a return of 2 units
\* posted with amount Rs 2.00 is saved with amount Rs 1792.00
C24_Witness ==
    /\ last.op = "return_save" /\ last.outcome = "ok" /\ last.item = 1
    /\ lines[1].quantity = 5 /\ lines[1].total = 448000
    /\ last.quantity = 2 /\ last.amount = 200
    /\ returns[Len(returns)].amount = 179200

-----------------------------------------------------------------------------
\* C26: two concurrent InventoryManager batch operations whose item lists
\* overlap in opposite orders both run to completion: the row locks are taken
\* in such a way that the two transactions never end up each waiting for a
\* lock the other holds, and neither is ended by the database.
C26_NoLockCycle ==
    /\ \A p, q \in Procs :
          ~(/\ p # q /\ Waiting(p) /\ Waiting(q)
            /\ LockWanted(tx[p]) \in tx[q].held
            /\ LockWanted(tx[q]) \in tx[p].held)
    /\ \A p \in Procs :
          tx[p].pc = "done" => tx[p].result.errors # <<"exception">>

-----------------------------------------------------------------------------
\* the units of item id that the StockMovement rows ms added back for invoice inv
RECURSIVE RestoredQuantity(_, _, _)
RestoredQuantity(ms, inv, id) ==
    IF ms = <<>> THEN 0
    ELSE (IF ms[1].item = id /\ ms[1].invoice_id = inv /\ ms[1].quantity > 0
          THEN ms[1].quantity ELSE 0)
         + RestoredQuantity(Tail(ms), inv, id)

\* the units of item id on the active line items of invoice inv
SoldQuantity(ls, inv, id) ==
    BatchQuantity(TrackedEntries(RowsOfLines(ls, ActiveLineIds(ls, inv))), id)

\* C27: for any invoice, the quantity added back to an item's stock by the
\* returns recorded against the invoice plus the quantity added back by the
\* later deletion of the invoice equals the quantity of that item on the
\* invoice's active line items; the stock restored over the invoice's life
\* never exceeds what the invoice sold.
C27_RestoredEqualsSold ==
    \A id \in ItemIds :
        /\ RestoredQuantity(movements, 1, id) <= SoldQuantity(lines, 1, id)
        /\ last.op = "wholesale_delete"
           => RestoredQuantity(movements, 1, id) = SoldQuantity(lines, 1, id)

\* the units of item id that the returns against invoice inv added back
RECURSIVE ReturnedToStock(_, _, _)
ReturnedToStock(ms, inv, id) ==
    IF ms = <<>> THEN 0
    ELSE (IF ms[1].item = id /\ ms[1].invoice_id = inv /\ ms[1].movement_type = "return"
          THEN ms[1].quantity ELSE 0)
         + ReturnedToStock(Tail(ms), inv, id)

\* C29: for a wholesale invoice, the total quantity restored to an item's stock
\* by any sequence of accepted returns computed with the proportional estimate
\* never exceeds the quantity of that item on the invoice's active line items.
C29_ReturnsRestoreWithinSold ==
    (last.op # "none" /\ ~last.updated)
    => \A id \in ItemIds :
          ReturnedToStock(movements, 1, id) <= SoldQuantity(lines, 1, id)

-----------------------------------------------------------------------------
(* SpecChallan: challan creations (billing/models.py Challan.save and        *)
(* generate_challan_number, billing/views.py ChallanCreateView.post) and    *)
(* soft deletions (billing/views.py challan_delete) within one month, one   *)
(* request at a time.  A Challan row carries the number part of its         *)
(* challan_number, which stays below 1000.                                  *)

\* the Challan rows after a creation
ChallanCounts == 1..5

ChallanRow(number) == [challan_number |-> number, is_active |-> TRUE]

\* Challan.objects: SoftDeleteManager, the active rows only
ActiveChallans(chs) == {k \in 1..Len(chs) : chs[k].is_active}

\* Challan.objects.filter(challan_number__startswith=prefix)
\* .order_by('-challan_number').first(), and its number plus one
generate_challan_number(chs) ==
    IF ActiveChallans(chs) = {} THEN 1
    ELSE 1 + (CHOOSE n \in {chs[k].challan_number : k \in ActiveChallans(chs)} :
                 \A k \in ActiveChallans(chs) : chs[k].challan_number <= n)

\* unique=True on challan_number: the index covers every row of the table
ChallanNumberTaken(chs, number) == \E k \in 1..Len(chs) : chs[k].challan_number = number

InitChallan ==
    /\ challans = <<>>
    /\ quantity = [id \in ItemIds |-> 1]
    /\ initial = quantity
    /\ movements = <<>>
    /\ tx = [p \in Procs |-> IdleTx]
    /\ invoices = <<>>
    /\ lines = <<>>
    /\ returns = <<>>
    /\ payments = <<>>
    /\ pending = [p \in Procs |-> [pc |-> "idle"]]
    /\ last = [op |-> "none"]

ChallanUnchanged ==
    UNCHANGED <<quantity, movements, tx, initial, invoices, lines, returns, payments, pending>>

\* ChallanCreateView.post: challan.save() numbers the new row and inserts it; an
\* IntegrityError of the insert ends the request with an error message
ChallanCreate ==
    /\ Len(challans) + 1 \in ChallanCounts
    /\ LET number == generate_challan_number(challans)
           taken == ChallanNumberTaken(challans, number)
       IN  /\ last' = [op |-> "challan_create", challan_number |-> number,
                       deleted |-> IF last.op = "challan_delete" THEN last.challan_number ELSE 0,
                       outcome |-> IF taken THEN "error" ELSE "ok"]
           /\ challans' = IF taken THEN challans ELSE Append(challans, ChallanRow(number))
    /\ ChallanUnchanged

\* challan_delete: get_object_or_404(Challan, id=challan_id, is_active=True) and
\* the soft delete of SoftDeleteMixin
ChallanDelete ==
    /\ \E k \in ActiveChallans(challans) :
        /\ challans' = [challans EXCEPT ![k].is_active = FALSE]
        /\ last' = [op |-> "challan_delete", challan_number |-> challans[k].challan_number,
                    deleted |-> 0, outcome |-> "ok"]
    /\ ChallanUnchanged

NextChallan == ChallanCreate \/ ChallanDelete

SpecChallan == InitChallan /\ [][NextChallan]_vars

\* C30: Challan.save always assigns a challan number that no existing Challan
\* row, active or soft-deleted, carries, for any sequence of challan creations
\* and soft deletions within one month; in particular, creating a challan right
\* after the challan with the highest number of the month was soft-deleted
\* succeeds.
C30_ChallanNumberFresh ==
    last.op = "challan_create"
    => /\ last.outcome = "ok"
       /\ \A k \in 1..(Len(challans) - 1) :
             challans[k].challan_number # last.challan_number

-----------------------------------------------------------------------------
(* SpecDeleteRace: two delete requests for invoice 1 (billing/views.py       *)
(* invoice_delete, retailapp/views.py retail_invoice_delete, soft delete).  *)
(* A request first reads the invoice with get_object_or_404(...,            *)
(* is_active=True), which locks nothing, and then runs its atomic block:    *)
(* the restoration, whose row locks put the two blocks one after the other, *)
(* and the save of is_active = False.                                       *)

DeleteRaceUnchanged == UNCHANGED <<tx, initial, lines, returns, payments, challans>>

\* get_object_or_404(Invoice, id=invoice_id, is_active=True)
DeleteFind(p) ==
    /\ pending[p].pc = "idle"
    /\ pending' = [pending EXCEPT ![p] =
                     [pc |-> IF invoices[1].is_active THEN "found" ELSE "not_found"]]
    /\ last' = [op |-> "delete_find", proc |-> p]
    /\ UNCHANGED <<quantity, movements, invoices>>
    /\ DeleteRaceUnchanged

\* with transaction.atomic(): collect the line items, restore, mark inactive
DeleteRestore(p) ==
    /\ pending[p].pc = "found"
    /\ LET r == IF invoices[1].kind = "wholesale"
                THEN invoice_delete(quantity, movements, invoices, lines, 1)
                ELSE retail_invoice_delete(quantity, movements, invoices, lines, 1)
       IN  /\ quantity' = r.quantity
           /\ movements' = r.movements
           /\ invoices' = r.invoices
    /\ pending' = [pending EXCEPT ![p] = [pc |-> "done"]]
    /\ last' = [op |-> "delete_restore", proc |-> p]
    /\ DeleteRaceUnchanged

NextDeleteRace == \E p \in Procs : DeleteFind(p) \/ DeleteRestore(p)

SpecDeleteRace == InitDelete /\ [][NextDeleteRace]_vars

\* the restoration movements of an invoice for an item
RestorationCount(ms, inv, id) ==
    Cardinality({k \in 1..Len(ms) :
                   ms[k].item = id /\ ms[k].invoice_id = inv /\ ms[k].quantity > 0})

\* the active line items of an invoice that sell an item
LineCount(ls, inv, id) ==
    Cardinality({k \in 1..Len(ls) :
                   ls[k].invoice = inv /\ ls[k].is_active /\ ls[k].item = id})

\* C28: two concurrent delete requests for the same active invoice restore its
\* stock exactly once: after both requests have finished, each tracked item's
\* quantity has increased by that invoice's line quantity for the item, and
\* exactly one restoration StockMovement per line item exists for the invoice.
C28_ConcurrentDeleteRestoresOnce ==
    (\A p \in Procs : pending[p].pc \in {"done", "not_found"})
    => \A id \in ItemIds :
          RowFound(id)
          => /\ quantity[id] = initial[id] + SoldQuantity(lines, 1, id)
             /\ RestorationCount(movements, 1, id) = LineCount(lines, 1, id)

====
